---------------------------- MODULE Spec2Model ----------------------------
(***************************************************************************)
(* Chat Trimmer: the trim pass (ChatTrimmer.trim), message classification, *)
(* the combat encounter detector, the archive entry builder and the        *)
(* archive manager's create / append, modelled from the JavaScript source. *)
(***************************************************************************)
EXTENDS Integers, Sequences, FiniteSets, TLC

(***************************************************************************)
(* Message text.  A message's content is one of the texts below; the       *)
(* tables record, for each text, which of the patterns the program looks   *)
(* for occur in its lower-cased form (String.includes on                   *)
(* content.toLowerCase()), the number matched by /round\s+(\d+)/i, and the *)
(* name matched by extractTargetName's patterns.                           *)
(***************************************************************************)
Texts ==
    {"Roll for initiative!",
     "Initiative: 17",
     "Aldric attacks Goblin - hit! Round 1",
     "9 slashing damage",
     "Goblin attacks Aldric - hit! Round 2",
     "Goblin attacks Aldric - miss.",
     "Critical hit! Aldric strikes Goblin",
     "Aldric strikes Goblin",
     "Goblin dies",
     "Takes 9 damage and dies",
     "The combat rages on",
     "Combat ended",
     "Combat ended with the final attack",
     "Critical miss!",
     "Death save: 12",
     "Level up!",
     "Gained 50 XP",
     "Falls unconscious",
     "Hello there",
     "Initiative (Athletics)",
     "Athletics to shove, then attack",
     "Seek (Perception Check)",
     "Stealth to save the day",
     "Saving throw against fire damage",
     "Sneak attack damage",
     "Strength check to attack the door",
     "Wisdom roll",
     "Rolls 1d20",
     "Drinks a healing potion",
     "Divides the loot"}

ContainedIn ==
    [t \in Texts |->
        CASE t = "Roll for initiative!" ->
               {"initiative", "roll for initiative"}
          [] t = "Initiative: 17" ->
               {"initiative"}
          [] t = "Aldric attacks Goblin - hit! Round 1" ->
               {"attack", "hit", "hit!", "round"}
          [] t = "9 slashing damage" ->
               {"damage"}
          [] t = "Goblin attacks Aldric - hit! Round 2" ->
               {"attack", "hit", "hit!", "round"}
          [] t = "Goblin attacks Aldric - miss." ->
               {"attack", "miss"}
          [] t = "Critical hit! Aldric strikes Goblin" ->
               {"critical hit", "hit", "hit!", "strike"}
          [] t = "Aldric strikes Goblin" ->
               {"strike"}
          [] t = "Goblin dies" ->
               {"dies"}
          [] t = "Takes 9 damage and dies" ->
               {"damage", "dies", "takes"}
          [] t = "The combat rages on" ->
               {"combat"}
          [] t = "Combat ended" ->
               {"combat", "combat ended"}
          [] t = "Combat ended with the final attack" ->
               {"attack", "combat", "combat ended"}
          [] t = "Critical miss!" ->
               {"critical miss", "miss"}
          [] t = "Death save: 12" ->
               {"death", "death save", "save"}
          [] t = "Level up!" ->
               {"level", "level up"}
          [] t = "Gained 50 XP" ->
               {"xp"}
          [] t = "Falls unconscious" ->
               {"unconscious"}
          [] t = "Hello there" ->
               {}
          [] t = "Initiative (Athletics)" ->
               {"athletics", "initiative"}
          [] t = "Athletics to shove, then attack" ->
               {"athletics", "attack"}
          [] t = "Seek (Perception Check)" ->
               {"check)", "perception"}
          [] t = "Stealth to save the day" ->
               {"save", "stealth"}
          [] t = "Saving throw against fire damage" ->
               {"damage", "saving throw"}
          [] t = "Sneak attack damage" ->
               {"attack", "damage"}
          [] t = "Strength check to attack the door" ->
               {"attack", "strength"}
          [] t = "Wisdom roll" ->
               {"wisdom"}
          [] t = "Rolls 1d20" ->
               {}
          [] t = "Drinks a healing potion" ->
               {"heal"}
          [] t = "Divides the loot" ->
               {"loot"}]

RoundAnnounced ==
    [t \in Texts |->
        CASE t = "Roll for initiative!" -> 0
          [] t = "Initiative: 17" -> 0
          [] t = "Aldric attacks Goblin - hit! Round 1" -> 1
          [] t = "9 slashing damage" -> 0
          [] t = "Goblin attacks Aldric - hit! Round 2" -> 2
          [] t = "Goblin attacks Aldric - miss." -> 0
          [] t = "Critical hit! Aldric strikes Goblin" -> 0
          [] t = "Aldric strikes Goblin" -> 0
          [] t = "Goblin dies" -> 0
          [] t = "Takes 9 damage and dies" -> 0
          [] t = "The combat rages on" -> 0
          [] t = "Combat ended" -> 0
          [] t = "Combat ended with the final attack" -> 0
          [] t = "Critical miss!" -> 0
          [] t = "Death save: 12" -> 0
          [] t = "Level up!" -> 0
          [] t = "Gained 50 XP" -> 0
          [] t = "Falls unconscious" -> 0
          [] t = "Hello there" -> 0
          [] t = "Initiative (Athletics)" -> 0
          [] t = "Athletics to shove, then attack" -> 0
          [] t = "Seek (Perception Check)" -> 0
          [] t = "Stealth to save the day" -> 0
          [] t = "Saving throw against fire damage" -> 0
          [] t = "Sneak attack damage" -> 0
          [] t = "Strength check to attack the door" -> 0
          [] t = "Wisdom roll" -> 0
          [] t = "Rolls 1d20" -> 0
          [] t = "Drinks a healing potion" -> 0
          [] t = "Divides the loot" -> 0]

TargetNamed ==
    [t \in Texts |->
        CASE t = "Aldric attacks Goblin - hit! Round 1" -> "Goblin"
          [] t = "Goblin attacks Aldric - hit! Round 2" -> "Aldric"
          [] t = "Goblin attacks Aldric - miss." -> "Aldric"
          [] t = "Athletics to shove, then attack" -> "shove"
          [] t = "Stealth to save the day" -> "save the"
          [] t = "Saving throw against fire damage" -> "fire damage"
          [] t = "Sneak attack damage" -> "damage"
          [] t = "Strength check to attack the door" -> "the door"
          [] OTHER -> "null"]

\* MessageParser.extractKeywords of each text: the capitalised words, lower-cased,
\* then the game terms the lower-cased text includes, each once, in the order
\* the code adds them to its Set
Keywords ==
    [t \in Texts |->
        CASE t = "Roll for initiative!" ->
               <<"roll", "initiative">>
          [] t = "Initiative: 17" ->
               <<"initiative">>
          [] t = "Aldric attacks Goblin - hit! Round 1" ->
               <<"aldric", "goblin", "round", "attack", "hit">>
          [] t = "9 slashing damage" ->
               <<"damage">>
          [] t = "Goblin attacks Aldric - hit! Round 2" ->
               <<"goblin", "aldric", "round", "attack", "hit">>
          [] t = "Goblin attacks Aldric - miss." ->
               <<"goblin", "aldric", "attack", "miss">>
          [] t = "Critical hit! Aldric strikes Goblin" ->
               <<"critical", "aldric", "goblin", "hit">>
          [] t = "Aldric strikes Goblin" ->
               <<"aldric", "goblin">>
          [] t = "Goblin dies" ->
               <<"goblin">>
          [] t = "Takes 9 damage and dies" ->
               <<"takes", "damage">>
          [] t = "The combat rages on" ->
               <<"the", "combat">>
          [] t = "Combat ended" ->
               <<"combat">>
          [] t = "Combat ended with the final attack" ->
               <<"combat", "attack">>
          [] t = "Critical miss!" ->
               <<"critical", "miss">>
          [] t = "Death save: 12" ->
               <<"death", "save", "death save">>
          [] t = "Level up!" ->
               <<"level">>
          [] t = "Gained 50 XP" ->
               <<"gained">>
          [] t = "Falls unconscious" ->
               <<"falls">>
          [] t = "Hello there" ->
               <<"hello">>
          [] t = "Initiative (Athletics)" ->
               <<"initiative", "athletics">>
          [] t = "Athletics to shove, then attack" ->
               <<"athletics", "attack">>
          [] t = "Seek (Perception Check)" ->
               <<"seek", "perception", "check">>
          [] t = "Stealth to save the day" ->
               <<"stealth", "save">>
          [] t = "Saving throw against fire damage" ->
               <<"saving", "damage", "saving throw">>
          [] t = "Sneak attack damage" ->
               <<"sneak", "attack", "damage">>
          [] t = "Strength check to attack the door" ->
               <<"strength", "attack">>
          [] t = "Wisdom roll" ->
               <<"wisdom">>
          [] t = "Rolls 1d20" ->
               <<"rolls">>
          [] t = "Drinks a healing potion" ->
               <<"drinks", "heal">>
          [] t = "Divides the loot" ->
               <<"divides">>]

\* MessageParser.extractDamage of each text: the number of "<n> damage",
\* "takes <n>" or "<n> hp", NoValue (null) when the text states none
DamageStated ==
    [t \in Texts |->
        CASE t = "Takes 9 damage and dies" -> 9
          [] OTHER -> 0 - 1]

\* identifyRollType's result for a skill or an ability name:
\* skill.charAt(0).toUpperCase() + skill.slice(1), and the same + " Check" for
\* an ability
NamedRollType ==
    [name \in {"acrobatics", "arcana", "athletics", "crafting", "deception", "diplomacy", "intimidation", "medicine", "nature", "occultism", "performance", "religion", "society", "survival", "thievery", "animal handling", "history", "insight", "investigation", "persuasion", "sleight of hand", "strength", "dexterity", "constitution", "intelligence", "wisdom", "charisma"} |->
        CASE name = "acrobatics" -> "Acrobatics"
          [] name = "arcana" -> "Arcana"
          [] name = "athletics" -> "Athletics"
          [] name = "crafting" -> "Crafting"
          [] name = "deception" -> "Deception"
          [] name = "diplomacy" -> "Diplomacy"
          [] name = "intimidation" -> "Intimidation"
          [] name = "medicine" -> "Medicine"
          [] name = "nature" -> "Nature"
          [] name = "occultism" -> "Occultism"
          [] name = "performance" -> "Performance"
          [] name = "religion" -> "Religion"
          [] name = "society" -> "Society"
          [] name = "survival" -> "Survival"
          [] name = "thievery" -> "Thievery"
          [] name = "animal handling" -> "Animal handling"
          [] name = "history" -> "History"
          [] name = "insight" -> "Insight"
          [] name = "investigation" -> "Investigation"
          [] name = "persuasion" -> "Persuasion"
          [] name = "sleight of hand" -> "Sleight of hand"
          [] name = "strength" -> "Strength Check"
          [] name = "dexterity" -> "Dexterity Check"
          [] name = "constitution" -> "Constitution Check"
          [] name = "intelligence" -> "Intelligence Check"
          [] name = "wisdom" -> "Wisdom Check"
          [] name = "charisma" -> "Charisma Check"]

\* identifyRollType's result for a text with a skill-check phrase: "<action>
\* (<skill>)" when /([A-Za-z]+)\s*[...]?\s*\(([A-Za-z]+)\s+Check\)/i matches,
\* "<skill> Check" when only /\(([A-Za-z]+)\s+Check\)/i does, else "Skill Check"
SkillCheckNamed ==
    [t \in Texts |->
        CASE t = "Seek (Perception Check)" -> "Seek (Perception)"
          [] OTHER -> "Skill Check"]

\* identifyRollType's result for a message tagged skill-check: the action of a
\* <strong> element and the skill of "(<skill> Check)", the skill alone, or
\* "Skill Check"
TaggedSkillCheckNamed ==
    [t \in Texts |->
        CASE t = "Seek (Perception Check)" -> "Perception Check"
          [] OTHER -> "Skill Check"]

\* String.toLowerCase on the names of actors and scenes
toLowerCase ==
    [name \in {"Aldric", "Goblin", "Gamemaster", "Unknown", "Unknown Location"} |->
        CASE name = "Aldric" -> "aldric"
          [] name = "Goblin" -> "goblin"
          [] name = "Gamemaster" -> "gamemaster"
          [] name = "Unknown" -> "unknown"
          [] name = "Unknown Location" -> "unknown location"]

\* msg.content when the field is missing (a malformed message)
Undefined == "undefined"

\* content.toLowerCase().includes(pattern); combined = content + " " + flavor
\* with an empty flavor contains the same patterns
Includes(content, pattern) == pattern \in ContainedIn[content]

(***************************************************************************)
(* Chat messages.  MessageKinds are the message payloads the model draws   *)
(* from; a chat message is a payload with an id and a timestamp.           *)
(* style: "ic", "ooc", "emote", "other".  contextType is                   *)
(* flags.pf2e.context.type ("" when absent); total is rolls[0].total;       *)
(* whisper is msg.whisper.length > 0.                                      *)
(***************************************************************************)
StartText ==
    [content |-> "Roll for initiative!", isRoll |-> FALSE, initiativeRoll |-> FALSE,
     contextType |-> "", alias |-> "Gamemaster", total |-> 0, style |-> "other", whisper |-> FALSE]

InitiativeRoll ==
    [content |-> "Initiative: 17", isRoll |-> TRUE, initiativeRoll |-> TRUE,
     contextType |-> "", alias |-> "Aldric", total |-> 17, style |-> "other", whisper |-> FALSE]

AttackHitRound1 ==
    [content |-> "Aldric attacks Goblin - hit! Round 1", isRoll |-> TRUE,
     initiativeRoll |-> FALSE, contextType |-> "attack-roll", alias |-> "Aldric",
     total |-> 18, style |-> "other", whisper |-> FALSE]

AttackHitRound2 ==
    [content |-> "Goblin attacks Aldric - hit! Round 2", isRoll |-> TRUE,
     initiativeRoll |-> FALSE, contextType |-> "attack-roll", alias |-> "Goblin",
     total |-> 16, style |-> "other", whisper |-> FALSE]

AttackMiss ==
    [content |-> "Goblin attacks Aldric - miss.", isRoll |-> TRUE,
     initiativeRoll |-> FALSE, contextType |-> "attack-roll", alias |-> "Goblin",
     total |-> 7, style |-> "other", whisper |-> FALSE]

DamageRoll ==
    [content |-> "9 slashing damage", isRoll |-> TRUE, initiativeRoll |-> FALSE,
     contextType |-> "damage-roll", alias |-> "Aldric", total |-> 9, style |-> "other", whisper |-> FALSE]

CriticalHit ==
    [content |-> "Critical hit! Aldric strikes Goblin", isRoll |-> TRUE,
     initiativeRoll |-> FALSE, contextType |-> "attack-roll", alias |-> "Aldric",
     total |-> 30, style |-> "other", whisper |-> FALSE]

\* an attack roll of a system that sets no pf2e context flag
StrikeRoll ==
    [content |-> "Aldric strikes Goblin", isRoll |-> TRUE, initiativeRoll |-> FALSE,
     contextType |-> "", alias |-> "Aldric", total |-> 19, style |-> "ic", whisper |-> FALSE]

\* a damage roll made by the GM (a trap, a hazard): no actor has the speaker's name
TrapDamage ==
    [content |-> "9 slashing damage", isRoll |-> TRUE, initiativeRoll |-> FALSE,
     contextType |-> "damage-roll", alias |-> "Gamemaster", total |-> 9, style |-> "other", whisper |-> FALSE]

\* a creature, or a player character, narrates its own fall
NpcDeath ==
    [content |-> "Takes 9 damage and dies", isRoll |-> FALSE, initiativeRoll |-> FALSE,
     contextType |-> "", alias |-> "Goblin", total |-> 0, style |-> "other", whisper |-> FALSE]

PcDeath ==
    [content |-> "Takes 9 damage and dies", isRoll |-> FALSE, initiativeRoll |-> FALSE,
     contextType |-> "", alias |-> "Aldric", total |-> 0, style |-> "other", whisper |-> FALSE]

CombatChatter ==
    [content |-> "The combat rages on", isRoll |-> FALSE, initiativeRoll |-> FALSE,
     contextType |-> "", alias |-> "Gamemaster", total |-> 0, style |-> "other", whisper |-> FALSE]

EndWithAttack ==
    [content |-> "Combat ended with the final attack", isRoll |-> FALSE,
     initiativeRoll |-> FALSE, contextType |-> "", alias |-> "Gamemaster", total |-> 0,
     style |-> "other", whisper |-> FALSE]

CriticalMiss ==
    [content |-> "Critical miss!", isRoll |-> TRUE, initiativeRoll |-> FALSE,
     contextType |-> "attack-roll", alias |-> "Goblin", total |-> 1, style |-> "other", whisper |-> FALSE]

DeathSave ==
    [content |-> "Death save: 12", isRoll |-> TRUE, initiativeRoll |-> FALSE,
     contextType |-> "", alias |-> "Aldric", total |-> 12, style |-> "other", whisper |-> FALSE]

LevelUp ==
    [content |-> "Level up!", isRoll |-> FALSE, initiativeRoll |-> FALSE,
     contextType |-> "", alias |-> "Gamemaster", total |-> 0, style |-> "other", whisper |-> FALSE]

XpGain ==
    [content |-> "Gained 50 XP", isRoll |-> FALSE, initiativeRoll |-> FALSE,
     contextType |-> "", alias |-> "Gamemaster", total |-> 0, style |-> "other", whisper |-> FALSE]

FallsUnconscious ==
    [content |-> "Falls unconscious", isRoll |-> FALSE, initiativeRoll |-> FALSE,
     contextType |-> "", alias |-> "Aldric", total |-> 0, style |-> "emote", whisper |-> FALSE]

DeathText ==
    [content |-> "Goblin dies", isRoll |-> FALSE, initiativeRoll |-> FALSE,
     contextType |-> "", alias |-> "Goblin", total |-> 0, style |-> "other", whisper |-> FALSE]

EndText ==
    [content |-> "Combat ended", isRoll |-> FALSE, initiativeRoll |-> FALSE,
     contextType |-> "", alias |-> "Gamemaster", total |-> 0, style |-> "other", whisper |-> FALSE]

SpeechText ==
    [content |-> "Hello there", isRoll |-> FALSE, initiativeRoll |-> FALSE,
     contextType |-> "", alias |-> "Aldric", total |-> 0, style |-> "ic", whisper |-> FALSE]

Malformed ==
    [content |-> Undefined, isRoll |-> FALSE, initiativeRoll |-> FALSE,
     contextType |-> "", alias |-> "", total |-> 0, style |-> "other", whisper |-> FALSE]

\* a roll of the player character with the given text and context type
Roll(content, contextType) ==
    [content |-> content, isRoll |-> TRUE, initiativeRoll |-> FALSE,
     contextType |-> contextType, alias |-> "Aldric", total |-> 15, style |-> "other",
     whisper |-> FALSE]

\* a text message of the player character with the given style and whisper targets
TextMessage(content, style, whisper) ==
    [content |-> content, isRoll |-> FALSE, initiativeRoll |-> FALSE,
     contextType |-> "", alias |-> "Aldric", total |-> 0, style |-> style,
     whisper |-> whisper]

\* a ChatMessage document made of a payload, an id and a timestamp
ChatMessage(kind, id, timestamp) ==
    [id |-> id, timestamp |-> timestamp, content |-> kind.content,
     isRoll |-> kind.isRoll, initiativeRoll |-> kind.initiativeRoll,
     contextType |-> kind.contextType, alias |-> kind.alias,
     total |-> kind.total, style |-> kind.style, whisper |-> kind.whisper]

\* the names of game.actors: a player character and a creature
Actors == {"Aldric", "Goblin"}

\* game.actors.getName(name)?.hasPlayerOwner for the actors of the world
hasPlayerOwner(name) == name = "Aldric"

(***************************************************************************)
(* MessageParser                                                           *)
(***************************************************************************)
isRoll(msg) == msg.isRoll

\* the speaker alias; every well-formed message of the model carries one
extractActorName(msg) == IF msg.alias # "" THEN msg.alias ELSE "Unknown"

extractTargetName(content) == TargetNamed[content]

\* true / false / null as "true" / "false" / "null"
isHit(content) ==
    IF Includes(content, "hit!") \/ Includes(content, " hits") THEN "true"
    ELSE IF Includes(content, "miss") \/ Includes(content, "misses") THEN "false"
    ELSE "null"

isCritical(content) == Includes(content, "critical hit") \/ Includes(content, "crit!")

isFumble(content) ==
    \/ Includes(content, "fumble")
    \/ Includes(content, "critical miss")
    \/ Includes(content, "critical failure")

\* the skills and the abilities of identifyRollType, in the order of its lists
skills ==
    <<"acrobatics", "arcana", "athletics", "crafting", "deception", "diplomacy",
      "intimidation", "medicine", "nature", "occultism", "performance", "religion",
      "society", "survival", "thievery", "animal handling", "history", "insight",
      "investigation", "persuasion", "sleight of hand">>

abilities ==
    <<"strength", "dexterity", "constitution", "intelligence", "wisdom", "charisma">>

\* for (const name of names) if (combined.includes(name)): the first name of
\* the list the content includes, "" when it includes none
RECURSIVE FirstIncluded(_, _)
FirstIncluded(content, names) ==
    IF names = <<>> THEN ""
    ELSE IF Includes(content, names[1]) THEN names[1]
    ELSE FirstIncluded(content, Tail(names))

\* a faulty variant: the attack / strike test placed before the tests on
\* skill names, saves and damage
identifyRollType_AttackFirst(msg) ==
    IF msg.contextType = "skill-check" THEN TaggedSkillCheckNamed[msg.content]
    ELSE IF msg.contextType = "attack-roll" THEN "Attack"
    ELSE IF msg.contextType = "spell-attack-roll" THEN "Spell Attack"
    ELSE IF msg.contextType = "damage-roll" THEN "Damage"
    ELSE IF msg.contextType = "saving-throw" THEN "Saving Throw"
    ELSE IF Includes(msg.content, "initiative") THEN "Initiative"
    ELSE IF Includes(msg.content, "attack") \/ Includes(msg.content, "strike")
        THEN "Attack"
    ELSE IF FirstIncluded(msg.content, skills) # ""
        THEN NamedRollType[FirstIncluded(msg.content, skills)]
    ELSE IF Includes(msg.content, "skill check") \/ Includes(msg.content, "check)")
        THEN SkillCheckNamed[msg.content]
    ELSE IF Includes(msg.content, "perception") THEN "Perception"
    ELSE IF Includes(msg.content, "stealth") THEN "Stealth"
    ELSE IF Includes(msg.content, "save") \/ Includes(msg.content, "saving throw")
        THEN "Saving Throw"
    ELSE IF Includes(msg.content, "damage") THEN "Damage"
    ELSE IF FirstIncluded(msg.content, abilities) # ""
        THEN NamedRollType[FirstIncluded(msg.content, abilities)]
    ELSE "Roll"

\* identifyRollType: the context types, then the keywords and the names, in
\* the order of the code; the messages of the model have no flavor
identifyRollType(msg) ==
    IF msg.contextType = "skill-check" THEN TaggedSkillCheckNamed[msg.content]
    ELSE IF msg.contextType = "attack-roll" THEN "Attack"
    ELSE IF msg.contextType = "spell-attack-roll" THEN "Spell Attack"
    ELSE IF msg.contextType = "damage-roll" THEN "Damage"
    ELSE IF msg.contextType = "saving-throw" THEN "Saving Throw"
    ELSE IF Includes(msg.content, "initiative") THEN "Initiative"
    ELSE IF FirstIncluded(msg.content, skills) # ""
        THEN NamedRollType[FirstIncluded(msg.content, skills)]
    ELSE IF Includes(msg.content, "skill check") \/ Includes(msg.content, "check)")
        THEN SkillCheckNamed[msg.content]
    ELSE IF Includes(msg.content, "perception") THEN "Perception"
    ELSE IF Includes(msg.content, "stealth") THEN "Stealth"
    ELSE IF Includes(msg.content, "save") \/ Includes(msg.content, "saving throw")
        THEN "Saving Throw"
    ELSE IF Includes(msg.content, "damage") THEN "Damage"
    ELSE IF Includes(msg.content, "attack") \/ Includes(msg.content, "strike")
        THEN "Attack"
    ELSE IF FirstIncluded(msg.content, abilities) # ""
        THEN NamedRollType[FirstIncluded(msg.content, abilities)]
    ELSE "Roll"

determineSuccess(msg, rollType) ==
    IF Includes(msg.content, "success") \/ Includes(msg.content, "hit") THEN "true"
    ELSE IF Includes(msg.content, "failure") \/ Includes(msg.content, "miss") THEN "false"
    ELSE IF rollType = "Attack" THEN isHit(msg.content)
    ELSE "null"

\* the fields of analyzeRoll's result that the detector reads
analyzeRoll(msg) ==
    LET rollType == identifyRollType(msg) IN
    [actor |-> extractActorName(msg), rollType |-> rollType, total |-> msg.total,
     target |-> extractTargetName(msg.content),
     isSuccess |-> determineSuccess(msg, rollType),
     isCritical |-> isCritical(msg.content), isFumble |-> isFumble(msg.content)]

(***************************************************************************)
(* CombatDetector                                                          *)
(***************************************************************************)
\* this.combatTimeout = 5 * 60 * 1000
combatTimeout == 300000

\* an undefined or null number (endTime never set, an action without damage)
NoValue == 0 - 1

isCombatStart(msg) ==
    \/ Includes(msg.content, "combat has started")
    \/ Includes(msg.content, "combat started")
    \/ Includes(msg.content, "roll initiative")
    \/ Includes(msg.content, "roll for initiative")
    \/ msg.initiativeRoll
    \/ Includes(msg.content, "enters combat")

CombatRollTypes == {"Attack", "Damage", "Saving Throw", "Initiative"}

\* CombatDetector.isCombatMessage
DetectorIsCombatMessage(msg) ==
    \/ Includes(msg.content, "attack")
    \/ Includes(msg.content, "damage")
    \/ Includes(msg.content, "hit")
    \/ Includes(msg.content, "miss")
    \/ Includes(msg.content, "saving throw")
    \/ Includes(msg.content, "save")
    \/ Includes(msg.content, "cast")
    \/ Includes(msg.content, "uses")
    \/ Includes(msg.content, "action")
    \/ (isRoll(msg) /\ analyzeRoll(msg).rollType \in CombatRollTypes)

isCombatEnd(msg) ==
    \/ Includes(msg.content, "combat has ended")
    \/ Includes(msg.content, "combat ended")
    \/ Includes(msg.content, "all enemies defeated")
    \/ Includes(msg.content, "combat is over")
    \/ Includes(msg.content, "encounter ended")

\* the object detect() assigns to currentCombat on a start signal;
\* currentRound is the last element of rounds once a round exists
StartCombat(msg) ==
    [active |-> TRUE, startTime |-> msg.timestamp, startMessageId |-> msg.id,
     endTime |-> NoValue, participants |-> {}, rounds |-> <<>>, casualties |-> <<>>]

\* currentCombat = null
NoCombat ==
    [active |-> FALSE, startTime |-> NoValue, startMessageId |-> NoValue,
     endTime |-> NoValue, participants |-> {}, rounds |-> <<>>, casualties |-> <<>>]

\* an entry of round.actions; fields the code leaves out are "undefined" / NoValue
Action(actor, action, target, roll, hit, success, critical, fumble, damage, messageId) ==
    [actor |-> actor, action |-> action, target |-> target, roll |-> roll,
     hit |-> hit, success |-> success, critical |-> critical, fumble |-> fumble,
     damage |-> damage, messageId |-> messageId]

extractDamage(content) == DamageStated[content]

\* combat.currentRound.actions.push(a)
PushAction(rounds, a) ==
    [rounds EXCEPT ![Len(rounds)].actions = Append(@, a)]

\* "Try to associate with last attack action": the last action of the current
\* round takes the damage when it is an attack that hit
AssociateDamage(rounds, damage, target) ==
    LET actions == rounds[Len(rounds)].actions
        last == actions[Len(actions)]
    IN  IF last.action = "attack" /\ last.hit = "true"
        THEN [rounds EXCEPT ![Len(rounds)].actions[Len(actions)] =
                 [last EXCEPT !.damage = damage,
                              !.target = IF target # "null" /\ last.target = "null"
                                         THEN target ELSE last.target]]
        ELSE rounds

\* "Use roll analysis for better combat tracking" (lines 181-242): the action
\* recorded for a roll with the given analysis
RecordRoll(msg, rounds, rollAnalysis) ==
    IF rollAnalysis.rollType = "Attack" THEN
        PushAction(rounds,
            Action(rollAnalysis.actor, "attack", rollAnalysis.target,
                   rollAnalysis.total, rollAnalysis.isSuccess, "undefined",
                   rollAnalysis.isCritical, rollAnalysis.isFumble, NoValue, msg.id))
    ELSE IF rollAnalysis.rollType = "Damage" THEN
        IF Len(rounds[Len(rounds)].actions) > 0
        THEN AssociateDamage(rounds, rollAnalysis.total, rollAnalysis.target)
        ELSE PushAction(rounds,
                Action(rollAnalysis.actor, "damage", rollAnalysis.target,
                       NoValue, "undefined", "undefined", FALSE, FALSE,
                       rollAnalysis.total, msg.id))
    ELSE IF rollAnalysis.rollType = "Saving Throw" THEN
        PushAction(rounds,
            Action(rollAnalysis.actor, "save", "undefined", rollAnalysis.total,
                   "undefined", rollAnalysis.isSuccess, rollAnalysis.isCritical,
                   rollAnalysis.isFumble, NoValue, msg.id))
    ELSE rounds

\* the roll / attack / damage branches of extractCombatInfo (lines 180-273)
RecordAction(msg, actor, rounds) ==
    IF isRoll(msg) THEN RecordRoll(msg, rounds, analyzeRoll(msg))
    ELSE IF Includes(msg.content, "attack") THEN
        PushAction(rounds,
            Action(actor, "attack", extractTargetName(msg.content), NoValue,
                   isHit(msg.content), "undefined", isCritical(msg.content),
                   isFumble(msg.content), NoValue, msg.id))
    ELSE IF Includes(msg.content, "damage") THEN
        IF Len(rounds[Len(rounds)].actions) > 0
        THEN AssociateDamage(rounds, extractDamage(msg.content),
                             extractTargetName(msg.content))
        ELSE rounds
    ELSE rounds

\* "Check for death/knockout" (lines 275-289); actor is never empty
RecordCasualty(msg, actor, casualties) ==
    IF \/ Includes(msg.content, "dies")
       \/ Includes(msg.content, "unconscious")
       \/ Includes(msg.content, "drops to 0")
       \/ Includes(msg.content, "reduced to 0")
    THEN IF \E i \in 1..Len(casualties) : casualties[i] = actor
         THEN casualties ELSE Append(casualties, actor)
    ELSE casualties

\* a faulty variant: any announced number other than the current one opens a round
RecordRound_AnyNumber(msg, rounds) ==
    IF (Includes(msg.content, "round") \/ Includes(msg.content, "turn"))
       /\ RoundAnnounced[msg.content] > 0
       /\ RoundAnnounced[msg.content] # rounds[Len(rounds)].number
    THEN Append(rounds, [number |-> RoundAnnounced[msg.content], actions |-> <<>>])
    ELSE rounds

\* "Check for new round" (lines 291-307)
RecordRound(msg, rounds) ==
    IF (Includes(msg.content, "round") \/ Includes(msg.content, "turn"))
       /\ RoundAnnounced[msg.content] > rounds[Len(rounds)].number
    THEN Append(rounds, [number |-> RoundAnnounced[msg.content], actions |-> <<>>])
    ELSE rounds

extractCombatInfo(msg, combat) ==
    LET actor == extractActorName(msg)
        rounds0 == IF combat.rounds = <<>>
                   THEN <<[number |-> 1, actions |-> <<>>]>> ELSE combat.rounds
        rounds1 == RecordAction(msg, actor, rounds0)
    IN  [combat EXCEPT !.participants = @ \cup {actor},
                       !.casualties = RecordCasualty(msg, actor, @),
                       !.rounds = RecordRound(msg, rounds1)]

\* the flattened list of the actions of all rounds
RECURSIVE AllActions(_)
AllActions(rounds) ==
    IF rounds = <<>> THEN <<>>
    ELSE rounds[1].actions \o AllActions(Tail(rounds))

RECURSIVE SumDamage(_, _)
SumDamage(actions, byPlayer) ==
    IF actions = <<>> THEN 0
    ELSE (IF actions[1].damage > 0 /\ hasPlayerOwner(actions[1].actor) = byPlayer
          THEN actions[1].damage ELSE 0) + SumDamage(Tail(actions), byPlayer)

\* a faulty variant: any casualty makes the encounter a defeat
Outcome_AnyCasualty(casualties) ==
    IF Len(casualties) > 0 THEN "Defeat" ELSE "Unknown"

\* "Determine outcome" (lines 315-328)
Outcome(casualties) ==
    IF Len(casualties) > 0
    THEN IF \E i \in 1..Len(casualties) : hasPlayerOwner(casualties[i])
         THEN "Defeat" ELSE "Victory"
    ELSE "Unknown"

\* Array.from(set): the elements of a Set in a fixed order (the code's is the
\* order of insertion)
RECURSIVE ArrayFrom(_)
ArrayFrom(S) ==
    IF S = {} THEN <<>>
    ELSE LET x == CHOOSE y \in S : TRUE IN <<x>> \o ArrayFrom(S \ {x})

\* game.scenes?.current?.name || "Unknown Location", with no scene active
sceneName == "Unknown Location"

getPlayerCharacters(participants) == ArrayFrom({n \in participants : hasPlayerOwner(n)})

\* every name without a player-owned actor; getName gives undefined, never null
getEnemies(participants) == ArrayFrom({n \in participants : ~hasPlayerOwner(n)})

finalizeCombat(combat, messages) ==
    [type |-> "combat",
     location |-> sceneName,
     participants |-> [allies |-> getPlayerCharacters(combat.participants),
                       enemies |-> getEnemies(combat.participants)],
     startTime |-> combat.startTime,
     endTime |-> combat.endTime,
     rounds |-> combat.rounds,
     outcome |-> Outcome(combat.casualties),
     casualties |-> combat.casualties,
     stats |-> [totalDamageDealt |-> SumDamage(AllActions(combat.rounds), TRUE),
                totalDamageTaken |-> SumDamage(AllActions(combat.rounds), FALSE),
                criticalSuccesses |->
                    Cardinality({i \in 1..Len(AllActions(combat.rounds)) :
                                    AllActions(combat.rounds)[i].critical})],
     originalMessageIds |-> [i \in 1..Len(messages) |-> messages[i].id],
     originalMessageCount |-> Len(messages)]

\* the state of detect()'s loop
DetectStart == [combats |-> <<>>, currentCombat |-> NoCombat, combatMessages |-> <<>>]

\* "Check if in active combat" (line 48): the record is absorbed
AbsorbsMessage(st, msg) == st.currentCombat.active /\ DetectorIsCombatMessage(msg)

\* "Combat timeout (5+ minutes since last message)" (lines 66-69)
TimedOut(st, msg) ==
    /\ st.currentCombat.active
    /\ Len(st.combatMessages) > 0
    /\ msg.timestamp - st.combatMessages[Len(st.combatMessages)].timestamp > combatTimeout

\* one iteration of detect()'s for loop
DetectStep(st, msg) ==
    IF isCombatStart(msg) THEN
        [combats |-> IF st.currentCombat.active
                     THEN Append(st.combats,
                                 finalizeCombat(st.currentCombat, st.combatMessages))
                     ELSE st.combats,
         currentCombat |-> StartCombat(msg),
         combatMessages |-> <<msg>>]
    ELSE IF AbsorbsMessage(st, msg) THEN
        [st EXCEPT !.combatMessages = Append(@, msg),
                   !.currentCombat = extractCombatInfo(msg, @)]
    ELSE IF st.currentCombat.active /\ isCombatEnd(msg) THEN
        [combats |-> Append(st.combats,
                        finalizeCombat([st.currentCombat EXCEPT !.endTime = msg.timestamp],
                                       Append(st.combatMessages, msg))),
         currentCombat |-> NoCombat,
         combatMessages |-> <<>>]
    ELSE IF TimedOut(st, msg) THEN
        [combats |-> Append(st.combats,
                        finalizeCombat(
                            [st.currentCombat EXCEPT !.endTime =
                                st.combatMessages[Len(st.combatMessages)].timestamp],
                            st.combatMessages)),
         currentCombat |-> NoCombat,
         combatMessages |-> <<>>]
    ELSE st

RECURSIVE DetectLoop(_, _)
DetectLoop(st, messages) ==
    IF messages = <<>> THEN st
    ELSE DetectLoop(DetectStep(st, messages[1]), Tail(messages))

\* CombatDetector.detect
detect(messages) ==
    LET st == DetectLoop(DetectStart, messages) IN
    IF st.currentCombat.active /\ Len(st.combatMessages) > 0
    THEN Append(st.combats,
                finalizeCombat(
                    [st.currentCombat EXCEPT !.endTime =
                        st.combatMessages[Len(st.combatMessages)].timestamp],
                    st.combatMessages))
    ELSE st.combats

(***************************************************************************)
(* ChatTrimmer: classification and archive entries                         *)
(***************************************************************************)
CombatContextTypes == {"attack-roll", "spell-attack-roll", "saving-throw", "damage-roll"}

\* ChatTrimmer.isCombatMessage; hasActiveCombat is
\* game.combat?.active || game.combats?.some((c) => c.active)
TrimmerIsCombatMessage(msg, hasActiveCombat) ==
    IF msg.initiativeRoll THEN TRUE
    ELSE IF msg.contextType \in CombatContextTypes THEN TRUE
    ELSE IF ~hasActiveCombat THEN FALSE
    ELSE IF isRoll(msg) THEN TRUE
    ELSE \/ Includes(msg.content, "attack")
         \/ Includes(msg.content, "damage")
         \/ Includes(msg.content, "saving throw")
         \/ Includes(msg.content, "combat")
         \/ Includes(msg.content, "initiative")

isDialogueMessage(msg) == msg.style = "ic" \/ msg.style = "emote"

isRollMessage(msg) == isRoll(msg)

isItemMessage(msg) ==
    \/ Includes(msg.content, "receives")
    \/ Includes(msg.content, "gives")
    \/ Includes(msg.content, "takes")
    \/ Includes(msg.content, "gold")
    \/ Includes(msg.content, "item")

isSystemMessage(msg) == msg.style = "other"

isOOCMessage(msg) == msg.style = "ooc"

isCriticalMessage(msg) ==
    \/ Includes(msg.content, "critical hit")
    \/ Includes(msg.content, "critical miss")
    \/ Includes(msg.content, "death save")
    \/ Includes(msg.content, "level up")
    \/ Includes(msg.content, "xp")
    \/ Includes(msg.content, "dies")
    \/ Includes(msg.content, "unconscious")

\* a faulty variant: the conditions of section 2 (dying, death, unconscious) are
\* not looked for
isKeyEvent_NoConditions(msg) ==
    \/ Includes(msg.content, "critical success")
    \/ Includes(msg.content, "critical hit")
    \/ Includes(msg.content, "critical failure")
    \/ Includes(msg.content, "critical miss")
    \/ Includes(msg.content, "fumble")
    \/ Includes(msg.content, "death save")
    \/ Includes(msg.content, "xp")
    \/ Includes(msg.content, "level up")

\* isKeyEvent, sections 1 to 8 in the order of the code.  The messages of the
\* model have no flavor and no pf2e flags (outcome, heroPoints, origin), and no
\* text of Texts states a spell level or an amount of gold, so the tests on
\* these are left out.
isKeyEvent(msg) ==
    \/ Includes(msg.content, "critical success")
    \/ Includes(msg.content, "critical hit")
    \/ Includes(msg.content, "critical failure")
    \/ Includes(msg.content, "critical miss")
    \/ Includes(msg.content, "fumble")
    \/ Includes(msg.content, "dying")
    \/ Includes(msg.content, "death")
    \/ Includes(msg.content, "dies")
    \/ Includes(msg.content, "dead")
    \/ Includes(msg.content, "unconscious")
    \/ Includes(msg.content, "knocked out")
    \/ Includes(msg.content, "wounded")
    \/ Includes(msg.content, "death save")
    \/ Includes(msg.content, "recovery check")
    \/ Includes(msg.content, "stabilize")
    \/ Includes(msg.content, "hero point")
    \/ Includes(msg.content, "hero points")
    \/ Includes(msg.content, "xp")
    \/ Includes(msg.content, "experience")
    \/ Includes(msg.content, "level up")
    \/ Includes(msg.content, "gained a level")
    \/ Includes(msg.content, "leveled up")
    \/ Includes(msg.content, "treasure")
    \/ Includes(msg.content, "loot")
    \/ Includes(msg.content, "artifact")
    \/ Includes(msg.content, "relic")
    \/ Includes(msg.content, "legendary")
    \/ Includes(msg.content, "unique item")
    \/ Includes(msg.content, "persistent damage")
    \/ Includes(msg.content, "persistent bleed")
    \/ Includes(msg.content, "persistent fire")
    \/ Includes(msg.content, "persistent acid")
    \/ Includes(msg.content, "persistent poison")
    \/ Includes(msg.content, "doomed")
    \/ Includes(msg.content, "drained")
    \/ Includes(msg.content, "enfeebled")
    \/ Includes(msg.content, "clumsy")
    \/ Includes(msg.content, "stupefied")
    \/ Includes(msg.content, "slowed")
    \/ Includes(msg.content, "stunned")
    \/ Includes(msg.content, "paralyzed")
    \/ Includes(msg.content, "petrified")
    \/ Includes(msg.content, "confused")

\* msg.content.toLowerCase() (line 218) throws a TypeError when a message of the
\* batch has no content
ClassifyThrows(messages) ==
    \E i \in 1..Len(messages) : messages[i].content = Undefined

\* classifyMessages, for a batch on which it does not throw
classifyMessages(messages, hasActiveCombat) ==
    [combat   |-> SelectSeq(messages, LAMBDA m : TrimmerIsCombatMessage(m, hasActiveCombat)),
     dialogue |-> SelectSeq(messages, isDialogueMessage),
     rolls    |-> SelectSeq(messages, isRollMessage),
     items    |-> SelectSeq(messages, isItemMessage),
     system   |-> SelectSeq(messages, isSystemMessage),
     ooc      |-> SelectSeq(messages, isOOCMessage),
     critical |-> SelectSeq(messages, isCriticalMessage),
     all      |-> messages]

\* a faulty variant: "combat" taken from isCombatMessage, whose flag tests do
\* not look at the active combat
determineMessageCategories_ByBucket(msg, hasActiveCombat) ==
    (IF TrimmerIsCombatMessage(msg, hasActiveCombat) THEN <<"combat">> ELSE <<>>)
    \o (IF isRoll(msg) THEN <<"rolls">> ELSE <<>>)
    \o (IF msg.style = "ic" THEN <<"speech">> ELSE <<>>)
    \o (IF ~TrimmerIsCombatMessage(msg, hasActiveCombat) /\ ~isRoll(msg) /\ msg.style # "ic"
        THEN <<"all">> ELSE <<>>)

\* determineMessageCategories
determineMessageCategories(msg, hasActiveCombat) ==
    LET rolls == IF isRoll(msg) THEN <<"rolls">> ELSE <<>>
        combat ==
            IF hasActiveCombat
               /\ \/ msg.contextType \in CombatContextTypes
                  \/ msg.initiativeRoll
                  \/ /\ isRoll(msg)
                     /\ \/ Includes(msg.content, "attack")
                        \/ Includes(msg.content, "damage")
                        \/ Includes(msg.content, "saving throw")
                        \/ Includes(msg.content, "combat")
            THEN <<"combat">> ELSE <<>>
        whispers == IF msg.whisper THEN <<"whispers">> ELSE <<>>
        speech == IF msg.style = "ic" THEN <<"speech">> ELSE <<>>
        emotes == IF msg.style = "emote" THEN <<"emotes">> ELSE <<>>
        healing == IF Includes(msg.content, "heal") THEN <<"healing">> ELSE <<>>
        items == IF \/ Includes(msg.content, "item")
                    \/ Includes(msg.content, "gold")
                    \/ Includes(msg.content, "loot")
                 THEN <<"items">> ELSE <<>>
        important == IF \/ Includes(msg.content, "xp")
                        \/ Includes(msg.content, "level")
                        \/ Includes(msg.content, "important")
                     THEN <<"important">> ELSE <<>>
        categories == rolls \o combat \o whispers \o speech \o emotes \o healing
                      \o items \o important
    IN  IF categories = <<>> THEN <<"all">> ELSE categories

determineMessageCategory(msg, hasActiveCombat) ==
    determineMessageCategories(msg, hasActiveCombat)[1]

\* [...new Set(array)]: the array without its repeated elements
RECURSIVE Dedup(_)
Dedup(array) ==
    IF array = <<>> THEN <<>>
    ELSE LET front == Dedup(SubSeq(array, 1, Len(array) - 1))
             last == array[Len(array)]
         IN  IF last \in {front[i] : i \in 1..Len(front)} THEN front
             ELSE Append(front, last)

\* MessageParser.extractKeywords(msg.content)
extractKeywords(content) == Keywords[content]

\* KeywordExtractor.extractFromData(combat): the participants and the location,
\* lower-cased; a combat has none of the other fields the function reads
extractFromData(data) ==
    Dedup([i \in 1..Len(data.participants.allies) |->
              toLowerCase[data.participants.allies[i]]]
          \o [i \in 1..Len(data.participants.enemies) |->
                 toLowerCase[data.participants.enemies[i]]]
          \o <<toLowerCase[data.location]>>)

\* the entry pushed for a combat (lines 530-544); an absent field is <<>>
CombatEntry(combat) ==
    [type |-> "combat", category |-> "combat", categories |-> <<>>,
     timestamp |-> combat.startTime, summary |-> <<combat>>,
     originalMessage |-> <<>>, originalMessageIds |-> combat.originalMessageIds,
     searchKeywords |-> extractFromData(combat), isKeyEvent |-> TRUE]

\* the entry pushed for a critical message (lines 561-576): no categories field
CriticalEntry(msg, hasActiveCombat) ==
    [type |-> "individual", category |-> determineMessageCategory(msg, hasActiveCombat),
     categories |-> <<>>, timestamp |-> msg.timestamp, summary |-> <<>>,
     originalMessage |-> <<msg>>, originalMessageIds |-> <<msg.id>>,
     searchKeywords |-> extractKeywords(msg.content), isKeyEvent |-> isKeyEvent(msg)]

\* the entry pushed for a remaining message (lines 608-624)
IndividualEntry(msg, hasActiveCombat) ==
    [type |-> "individual", category |-> determineMessageCategory(msg, hasActiveCombat),
     categories |-> determineMessageCategories(msg, hasActiveCombat),
     timestamp |-> msg.timestamp, summary |-> <<>>,
     originalMessage |-> <<msg>>, originalMessageIds |-> <<msg.id>>,
     searchKeywords |-> extractKeywords(msg.content), isKeyEvent |-> isKeyEvent(msg)]

SeqToSet(s) == {s[i] : i \in 1..Len(s)}

\* processedMessageIds after the combat loop (line 547)
RECURSIVE CombatMessageIds(_)
CombatMessageIds(combats) ==
    IF combats = <<>> THEN {}
    ELSE SeqToSet(combats[1].originalMessageIds) \cup CombatMessageIds(Tail(combats))

\* a faulty variant: the critical loop without its processedMessageIds guard
CriticalIsUnprocessed_NoGuard(msg, processedMessageIds) == TRUE

\* the guard of the critical loop (line 552)
CriticalIsUnprocessed(msg, processedMessageIds) == msg.id \notin processedMessageIds

\* the critical loop (lines 551-580): the entries it pushes, in order
RECURSIVE CriticalEntries(_, _, _)
CriticalEntries(critical, processedMessageIds, hasActiveCombat) ==
    IF critical = <<>> THEN <<>>
    ELSE IF CriticalIsUnprocessed(critical[1], processedMessageIds)
         THEN <<CriticalEntry(critical[1], hasActiveCombat)>>
              \o CriticalEntries(Tail(critical),
                                 processedMessageIds \cup {critical[1].id}, hasActiveCombat)
         ELSE CriticalEntries(Tail(critical), processedMessageIds, hasActiveCombat)

\* a faulty variant: the remaining-messages loop over every message, processed or not
UnprocessedMessages_NoFilter(allMessages, processedMessageIds) == allMessages

\* allMessages.filter((msg) => !processedMessageIds.has(msg.id)) (lines 583-586)
UnprocessedMessages(allMessages, processedMessageIds) ==
    SelectSeq(allMessages, LAMBDA m : m.id \notin processedMessageIds)

\* entries.sort((a, b) => a.timestamp - b.timestamp): a stable sort
RECURSIVE InsertByTimestamp(_, _)
InsertByTimestamp(sorted, e) ==
    IF sorted = <<>> THEN <<e>>
    ELSE IF sorted[Len(sorted)].timestamp <= e.timestamp THEN Append(sorted, e)
    ELSE Append(InsertByTimestamp(SubSeq(sorted, 1, Len(sorted) - 1), e),
                sorted[Len(sorted)])

RECURSIVE SortLoop(_, _)
SortLoop(sorted, rest) ==
    IF rest = <<>> THEN sorted
    ELSE SortLoop(InsertByTimestamp(sorted, rest[1]), Tail(rest))

\* a faulty variant: the entries left in the order they were pushed
SortByTimestamp_Unsorted(entries) == entries

SortByTimestamp(entries) == SortLoop(<<>>, entries)

createArchiveEntries(detected, classified, hasActiveCombat) ==
    LET combatEntries == [i \in 1..Len(detected) |-> CombatEntry(detected[i])]
        processed1 == CombatMessageIds(detected)
        criticalEntries == CriticalEntries(classified.critical, processed1, hasActiveCombat)
        processed2 == processed1 \cup
                      {criticalEntries[i].originalMessageIds[1] :
                          i \in 1..Len(criticalEntries)}
        unprocessedMessages == UnprocessedMessages(classified.all, processed2)
        individualEntries ==
            [i \in 1..Len(unprocessedMessages) |->
                IndividualEntry(unprocessedMessages[i], hasActiveCombat)]
    IN  SortByTimestamp(combatEntries \o criticalEntries \o individualEntries)

\* a faulty variant: the detector runs whatever the setting
DetectedCombats_Always(classified, enableCombat) ==
    IF Len(classified.combat) > 0 THEN detect(classified.combat) ELSE <<>>

\* steps 1-3 of trim (lines 97-133): the detector runs only when combat
\* compression is enabled and the combat bucket is not empty
DetectedCombats(classified, enableCombat) ==
    IF enableCombat /\ Len(classified.combat) > 0
    THEN detect(classified.combat) ELSE <<>>

\* line 1190: the entry has an originalMessage and it is a roll
IsRollEntry(e) == e.originalMessage # <<>> /\ isRoll(e.originalMessage[1])

EntryIsCriticalSuccess(e) ==
    /\ IsRollEntry(e)
    /\ \/ Includes(e.originalMessage[1].content, "critical success")
       \/ Includes(e.originalMessage[1].content, "critical hit")

EntryIsCriticalFail(e) ==
    /\ IsRollEntry(e)
    /\ ~EntryIsCriticalSuccess(e)
    /\ \/ Includes(e.originalMessage[1].content, "critical failure")
       \/ Includes(e.originalMessage[1].content, "critical miss")
       \/ Includes(e.originalMessage[1].content, "fumble")

CountEntries(entries, Test(_)) == Cardinality({i \in 1..Len(entries) : Test(entries[i])})

\* calculateStatistics; the messages of the model carry no pf2e outcome flag
calculateStatistics(entries, detected) ==
    [totalCombats |-> Len(detected),
     totalDialogues |-> 0,
     totalSkillChecks |-> 0,
     totalRolls |-> CountEntries(entries, IsRollEntry),
     criticalSuccesses |-> CountEntries(entries, EntryIsCriticalSuccess),
     criticalFails |-> CountEntries(entries, EntryIsCriticalFail),
     itemsTransferred |-> 0,
     xpAwarded |-> 0]

\* the arrays of a list, one after the other
RECURSIVE Flatten(_)
Flatten(arrays) ==
    IF arrays = <<>> THEN <<>> ELSE arrays[1] \o Flatten(Tail(arrays))

\* the actors buildSearchIndex takes from an entry: the participants of a combat
\* summary (individual entries have no summary)
EntryActors(e) ==
    IF e.summary = <<>> THEN <<>>
    ELSE e.summary[1].participants.allies \o e.summary[1].participants.enemies

EntryScenes(e) == IF e.summary = <<>> THEN <<>> ELSE <<e.summary[1].location>>

EntryKeywords(e) == e.searchKeywords

\* KeywordExtractor.buildSearchIndex: three Sets, stored as arrays
buildSearchIndex(entries) ==
    [keywords |-> Dedup(Flatten([i \in 1..Len(entries) |-> EntryKeywords(entries[i])])),
     actors |-> Dedup(Flatten([i \in 1..Len(entries) |-> EntryActors(entries[i])])),
     scenes |-> Dedup(Flatten([i \in 1..Len(entries) |-> EntryScenes(entries[i])]))]

\* what one pass computes from its batch (steps 1-5 of trim)
PassEntries(messages, hasActiveCombat, enableCombat) ==
    LET classified == classifyMessages(messages, hasActiveCombat) IN
    createArchiveEntries(DetectedCombats(classified, enableCombat), classified,
                         hasActiveCombat)

PassCombats(messages, hasActiveCombat, enableCombat) ==
    DetectedCombats(classifyMessages(messages, hasActiveCombat), enableCombat)

(***************************************************************************)
(* ArchiveManager.  An archive is a journal entry (entries in its flags)   *)
(* or an archiveIndex record whose entries live in an external JSON file.  *)
(***************************************************************************)
\* Math.round(((original - compressed) / original) * 100), original > 0
CompressionRatio(original, compressed) ==
    (2 * 100 * (original - compressed) + original) \div (2 * original)

\* archives.find(a => a.getFlag("chat-trimmer", "sessionNumber") === sessionNumber):
\* its position in the list, 0 when there is none
getArchive(archiveList, sessionNumber) ==
    IF \E i \in 1..Len(archiveList) : archiveList[i].sessionNumber = sessionNumber
    THEN CHOOSE i \in 1..Len(archiveList) :
            /\ archiveList[i].sessionNumber = sessionNumber
            /\ \A j \in 1..(i - 1) : archiveList[j].sessionNumber # sessionNumber
    ELSE 0

\* the flags written by create(): metadata and, for a journal, the entries
NewArchive(data, sessionNumber, sessionName, storageType) ==
    [sessionNumber |-> sessionNumber,
     sessionName |-> sessionName,
     storageType |-> storageType,
     originalMessageCount |-> data.originalMessageCount,
     compressedEntryCount |-> data.compressedEntryCount,
     compressionRatio |-> CompressionRatio(data.originalMessageCount,
                                           data.compressedEntryCount),
     statistics |-> data.stats,
     searchIndex |-> data.searchIndex,
     entries |-> IF storageType = "external" THEN <<>> ELSE data.entries]

\* getArchiveEntries: the file's entries for an external archive ([] when the
\* fetch fails), the flag otherwise
getArchiveEntries(archive, fileList, fetchOk) ==
    IF archive.storageType = "external"
    THEN IF fetchOk THEN fileList[archive.sessionNumber] ELSE <<>>
    ELSE archive.entries

\* existingStats.field || 0
StatOrZero(stats, field) == IF field \in DOMAIN stats THEN stats[field] ELSE 0

\* "Merge statistics" (lines 263-272)
MergeStatistics(existingStats, newStats) ==
    [f \in {"totalCombats", "totalDialogues", "totalSkillChecks", "totalRolls",
            "criticalHits", "criticalFails", "itemsTransferred", "xpAwarded"} |->
        StatOrZero(existingStats, f) + StatOrZero(newStats, f)]

\* "Merge search index" (lines 274-280): the keywords concatenated, the actors
\* and the scenes passed through a Set
MergeSearchIndex(existingSearchIndex, newSearchIndex) ==
    [keywords |-> existingSearchIndex.keywords \o newSearchIndex.keywords,
     actors |-> Dedup(existingSearchIndex.actors \o newSearchIndex.actors),
     scenes |-> Dedup(existingSearchIndex.scenes \o newSearchIndex.scenes)]

\* "Merge new entries with existing" (lines 249-250)
MergeEntries(existingEntries, newEntries) ==
    SortByTimestamp(existingEntries \o newEntries)

\* a faulty variant: the counts added up, the ratio of the archive copied forward
AppendedArchive_RatioCopied(archive, data, existingEntries) ==
    [archive EXCEPT
        !.originalMessageCount = archive.originalMessageCount + data.originalMessageCount,
        !.compressedEntryCount = Len(existingEntries) + Len(data.entries),
        !.entries = IF archive.storageType = "external" THEN <<>>
                    ELSE existingEntries \o data.entries]

\* the flags appendToArchive() writes over those of the archive
AppendedArchive(archive, data, existingEntries) ==
    LET allEntries == MergeEntries(existingEntries, data.entries)
        newOriginalCount == archive.originalMessageCount + data.originalMessageCount
    IN  [archive EXCEPT
            !.originalMessageCount = newOriginalCount,
            !.compressedEntryCount = Len(allEntries),
            !.compressionRatio = CompressionRatio(newOriginalCount, Len(allEntries)),
            !.statistics = MergeStatistics(archive.statistics, data.stats),
            !.searchIndex = MergeSearchIndex(archive.searchIndex, data.searchIndex),
            !.entries = IF archive.storageType = "external" THEN <<>> ELSE allEntries]

\* ArchiveViewer.showOriginalMessages on an entry found in the "entries" flag of
\* an archive: the message its dialog formats; <<>> when it shows "Original
\* messages have been deleted. Only the summary remains."
showOriginalMessages(entry) ==
    IF entry.originalMessage # <<>> THEN entry.originalMessage ELSE <<>>

(***************************************************************************)
(* State                                                                   *)
(***************************************************************************)
VARIABLES
    messages,       \* game.messages.contents, in creation order
    combatActive,   \* game.combat?.active || game.combats?.some(c => c.active)
    settings,       \* game.settings of "chat-trimmer"
    isTrimming,     \* ChatTrimmer._isTrimming
    calls,          \* the calls of trim() that have not returned, in arrival order
    returned,       \* the call of trim() that returned last
    ncalls,         \* the number of calls of trim() so far
    archives,       \* the archives: journal entries and archiveIndex records
    files,          \* the external JSON files, by session number
    deleted,        \* the messages deleted by passes that archive
    pass,           \* classification, detection and entries applied to a batch
    dialogs,        \* the session numbers shown by the open new-session dialogs
    auto,           \* the auto-trim settings, the clock and performAutoTrim's position
    peer            \* a second GM client: its ChatTrimmer._isTrimming, its
                    \* scheduled performAutoTrim calls and performAutoTrim's position

vars == <<messages, combatActive, settings, isTrimming, calls, returned, ncalls,
          archives, files, deleted, pass, dialogs, auto, peer>>

\* bounds of the model
MaxBatch == 3
MaxStream == 7

NoPass == [ran |-> FALSE, combats |-> <<>>, entries |-> <<>>]

\* the part of the state that trim() owns
trimState == <<isTrimming, calls, returned, ncalls, archives, files, deleted, peer>>

NoStats == [totalCombats |-> 0]

\* autoTrimMethod = disabled, lastTrimTime at its default, the clock at 0
NoAuto ==
    [autoTrimMethod |-> "disabled", timeThreshold |-> 1, pauseTimerWithGame |-> FALSE,
     paused |-> FALSE, isGM |-> TRUE, now |-> 0, lastTrimTime |-> 0,
     awaiting |-> FALSE, autoTrims |-> 0, interval |-> FALSE, messageThreshold |-> 1,
     timers |-> 0]

\* the second client with no pass in flight and nothing scheduled
NoPeer == [isTrimming |-> FALSE, timers |-> 0, awaiting |-> FALSE]

\* the locals of a call of trim; ret is "pending", "null" or "result"; client
\* is the client whose ChatTrimmer runs the call, 1 unless it is the second one
Call(pc, options, batch, combats, entries, stats, ret, threw) ==
    [pc |-> pc, options |-> options, messages |-> batch, combats |-> combats,
     entries |-> entries, stats |-> stats, ret |-> ret, threw |-> threw,
     client |-> 1]

NoOptions == [ignoreKeep |-> FALSE, keepOriginals |-> FALSE]

NoCall == Call("none", NoOptions, <<>>, <<>>, <<>>, NoStats, "pending", "")

TrimInit ==
    /\ isTrimming = FALSE
    /\ calls = <<>>
    /\ returned = NoCall
    /\ ncalls = 0
    /\ archives = <<>>
    /\ files = <<>>
    /\ deleted = {}
    /\ dialogs = {}
    /\ auto = NoAuto
    /\ peer = NoPeer

\* timestamps of successive messages: a gap of exactly the timeout, or above it
Gaps == {combatTimeout, combatTimeout + 1}

LastTimestamp == IF messages = <<>> THEN 0 ELSE messages[Len(messages)].timestamp

\* a new ChatMessage document enters the log
AppendMessage(kind, gap) ==
    messages' = Append(messages, ChatMessage(kind, Len(messages) + 1, LastTimestamp + gap))

(***************************************************************************)
(* Specification of one pass as a function of its batch: the batch is      *)
(* built message by message, then classified, detected and turned into     *)
(* entries (trim steps 1-3).                                               *)
(***************************************************************************)
BatchKinds ==
    {StartText, AttackHitRound1, DamageRoll, CriticalHit, StrikeRoll, DeathText, EndText,
     SpeechText}

InitSettings ==
    [messagesToKeep |-> 0, enableArchiving |-> TRUE, enableCombatCompression |-> TRUE,
     storageType |-> "journal", currentSessionNumber |-> 1,
     currentSessionName |-> "Session 1"]

PipelineInit ==
    /\ messages = <<>>
    /\ combatActive \in BOOLEAN
    /\ settings \in {[InitSettings EXCEPT !.enableCombatCompression = b] : b \in BOOLEAN}
    /\ TrimInit
    /\ pass = NoPass

BatchAdd ==
    /\ ~pass.ran
    /\ Len(messages) < MaxBatch
    /\ \E kind \in BatchKinds, gap \in Gaps : AppendMessage(kind, gap)
    /\ UNCHANGED <<combatActive, settings, trimState, pass, dialogs, auto>>

ApplyPass ==
    /\ ~pass.ran
    /\ messages # <<>>
    /\ pass' = [ran |-> TRUE,
                combats |-> PassCombats(messages, combatActive,
                                        settings.enableCombatCompression),
                entries |-> PassEntries(messages, combatActive,
                                        settings.enableCombatCompression)]
    /\ UNCHANGED <<messages, combatActive, settings, trimState, dialogs, auto>>

PipelineNext == BatchAdd \/ ApplyPass

SpecPipeline == PipelineInit /\ [][PipelineNext]_vars

(***************************************************************************)
(* Specification of the combat closure scenario: a stream made of one      *)
(* start signal, attack/damage pairs announced over rounds 1 and 2,        *)
(* possibly a critical hit and a death, then one end signal, no gap above  *)
(* the timeout; then one pass over it, with a combat active and combat     *)
(* compression enabled.                                                    *)
(***************************************************************************)
ClosureGaps == {1000, combatTimeout}

AnnouncesRound(n) ==
    \E i \in 1..Len(messages) : RoundAnnounced[messages[i].content] = n

StreamEnded == messages # <<>> /\ isCombatEnd(messages[Len(messages)])

ClosureInit ==
    /\ messages = <<ChatMessage(StartText, 1, 1000)>>
    /\ combatActive = TRUE
    /\ settings = InitSettings
    /\ TrimInit
    /\ pass = NoPass

\* an attack roll announcing round n and its damage roll
ClosureAddPair ==
    /\ ~StreamEnded
    /\ Len(messages) + 2 < MaxStream
    /\ \E n \in {1, 2}, gap \in ClosureGaps :
          /\ n = 1 => ~AnnouncesRound(2)
          /\ messages' = messages \o
                <<ChatMessage(IF n = 1 THEN AttackHitRound1 ELSE AttackHitRound2,
                              Len(messages) + 1, LastTimestamp + gap),
                  ChatMessage(DamageRoll, Len(messages) + 2, LastTimestamp + 2 * gap)>>
    /\ UNCHANGED <<combatActive, settings, trimState, pass, dialogs, auto>>

ClosureAddCritical ==
    /\ ~StreamEnded
    /\ Len(messages) + 1 < MaxStream
    /\ \E gap \in ClosureGaps : AppendMessage(CriticalHit, gap)
    /\ UNCHANGED <<combatActive, settings, trimState, pass, dialogs, auto>>

ClosureAddDeath ==
    /\ ~StreamEnded
    /\ Len(messages) + 1 < MaxStream
    /\ \E gap \in ClosureGaps : AppendMessage(DeathText, gap)
    /\ UNCHANGED <<combatActive, settings, trimState, pass, dialogs, auto>>

ClosureAddEnd ==
    /\ ~StreamEnded
    /\ AnnouncesRound(1) /\ AnnouncesRound(2)
    /\ \E gap \in ClosureGaps : AppendMessage(EndText, gap)
    /\ UNCHANGED <<combatActive, settings, trimState, pass, dialogs, auto>>

ClosurePass ==
    /\ StreamEnded
    /\ ApplyPass

ClosureNext ==
    \/ ClosureAddPair
    \/ ClosureAddCritical
    \/ ClosureAddDeath
    \/ ClosureAddEnd
    \/ ClosurePass

SpecClosure == ClosureInit /\ [][ClosureNext]_vars

(***************************************************************************)
(* Specification of the detector over the records that follow a start      *)
(* signal: the log holds 'Roll for initiative!', further messages arrive   *)
(* (starts, initiative rolls, attacks, damage, deaths, chatter, end        *)
(* signals), a gap at or above the timeout apart, and one pass runs over   *)
(* the log with a combat active and combat compression enabled.            *)
(***************************************************************************)
MaxEncounter == 3

EncounterKinds ==
    {StartText, InitiativeRoll, AttackHitRound1, AttackHitRound2, AttackMiss, DamageRoll,
     TrapDamage,
     NpcDeath, PcDeath, CombatChatter, EndText, EndWithAttack}

EncounterInit ==
    /\ messages = <<ChatMessage(StartText, 1, 1000)>>
    /\ combatActive = TRUE
    /\ settings = InitSettings
    /\ TrimInit
    /\ pass = NoPass

EncounterAdd ==
    /\ ~pass.ran
    /\ Len(messages) < 1 + MaxEncounter
    /\ \E kind \in EncounterKinds, gap \in Gaps : AppendMessage(kind, gap)
    /\ UNCHANGED <<combatActive, settings, trimState, pass, dialogs, auto>>

EncounterNext == EncounterAdd \/ ApplyPass

SpecEncounter == EncounterInit /\ [][EncounterNext]_vars

\* the detector's input of the pass: the combat bucket of the batch
DetectorInput == classifyMessages(messages, combatActive).combat

\* the state of detect()'s loop before it reads the i-th record of its input,
\* and after it has read it
DetectBefore(i) == DetectLoop(DetectStart, SubSeq(DetectorInput, 1, i - 1))

DetectAfter(i) == DetectLoop(DetectStart, SubSeq(DetectorInput, 1, i))

(***************************************************************************)
(* Specification of one pass over a batch of messages that carry the       *)
(* triggers of isCriticalMessage and of isKeyEvent.                        *)
(***************************************************************************)
MaxKeyBatch == 2

KeyKinds ==
    {CriticalHit, CriticalMiss, DeathSave, LevelUp, XpGain, DeathText, FallsUnconscious,
     NpcDeath, AttackMiss, SpeechText,
     TextMessage("Hello there", "ooc", TRUE),
     TextMessage("Drinks a healing potion", "emote", FALSE),
     TextMessage("Divides the loot", "other", FALSE),
     TextMessage("The combat rages on", "other", FALSE)}

KeyAdd ==
    /\ ~pass.ran
    /\ Len(messages) < MaxKeyBatch
    /\ \E kind \in KeyKinds, gap \in Gaps : AppendMessage(kind, gap)
    /\ UNCHANGED <<combatActive, settings, trimState, pass, dialogs, auto>>

KeyNext == KeyAdd \/ ApplyPass

SpecKeyEvent == PipelineInit /\ [][KeyNext]_vars

(***************************************************************************)
(* Specification of the roll analysis of a pass: while an encounter is     *)
(* open, rolls arrive whose text names initiative, a skill, a check, a     *)
(* save, damage, an attack or an ability, with or without a pf2e context   *)
(* type, and one pass runs over the log.                                   *)
(***************************************************************************)
MaxRolls == 2

RollKinds ==
    {Roll("Initiative (Athletics)", ""),
     Roll("Athletics to shove, then attack", ""),
     Roll("Seek (Perception Check)", ""),
     Roll("Seek (Perception Check)", "skill-check"),
     Roll("Stealth to save the day", ""),
     Roll("Saving throw against fire damage", ""),
     Roll("Sneak attack damage", ""),
     Roll("Sneak attack damage", "attack-roll"),
     Roll("Strength check to attack the door", ""),
     Roll("Wisdom roll", ""),
     Roll("Rolls 1d20", ""),
     Roll("Initiative (Athletics)", "saving-throw"),
     Roll("Aldric strikes Goblin", "damage-roll"),
     Roll("Aldric strikes Goblin", "spell-attack-roll")}

RollAdd ==
    /\ ~pass.ran
    /\ Len(messages) < 1 + MaxRolls
    /\ \E kind \in RollKinds, gap \in Gaps : AppendMessage(kind, gap)
    /\ UNCHANGED <<combatActive, settings, trimState, pass, dialogs, auto>>

RollNext == RollAdd \/ ApplyPass

SpecRoll == EncounterInit /\ [][RollNext]_vars

(***************************************************************************)
(* ChatTrimmer.trim as a state machine.  A call is an invocation of        *)
(* trim(null, options); it runs up to its next await in one step:          *)
(*   "detect"  awaiting this.algorithms.combat.detect   (line 124)         *)
(*   "create"  awaiting this.archiveManager.create      (line 153)         *)
(*   "delete"  awaiting ChatMessage.deleteDocuments     (line 167)         *)
(*   "deleteNoArchive"  awaiting deleteDocuments with archiving disabled   *)
(*                                                      (line 82)          *)
(*   "done"    returned; ret is "null" or "result"                         *)
(***************************************************************************)
MaxMessages == 2
MaxCalls == 2

LogKinds == {InitiativeRoll, CriticalHit, Malformed}

\* a call that returns null before building anything
ReturnedNull(options, batch, threw) ==
    Call("done", options, batch, <<>>, <<>>, NoStats, "null", threw)

InFlight(call) == call.pc # "done"

Init ==
    /\ messages = <<>>
    /\ combatActive = FALSE
    /\ settings \in [messagesToKeep : {0, 1}, enableArchiving : BOOLEAN,
                     enableCombatCompression : {TRUE},
                     storageType : {"journal", "external"},
                     currentSessionNumber : {1},
                     currentSessionName : {"Session 1"}]
    /\ TrimInit
    /\ pass = NoPass

\* the id of the next message Foundry creates
NextId == Len(messages) + Cardinality(deleted) + 1

\* Foundry creates a chat message
CreateChatMessage ==
    /\ NextId <= MaxMessages
    /\ \E kind \in LogKinds :
          messages' = Append(messages, ChatMessage(kind, NextId, NextId * 1000))
    /\ UNCHANGED <<combatActive, settings, trimState, pass, dialogs, auto>>

\* a faulty variant: trim without the _isTrimming test
AlreadyInProgress_NoLock == FALSE

\* if (this._isTrimming) (line 26)
AlreadyInProgress == isTrimming

\* a faulty variant: trim without the "Messages to Keep" logic
BatchOf_NoKeep(options) == SortByTimestamp(messages)

\* "Messages to Keep" (lines 43-62): the batch of a call on the whole log;
\* <<>> also when the log is within the keep limit
BatchOf(options) ==
    LET all == SortByTimestamp(messages)
        keepCount == settings.messagesToKeep
    IN  IF ~options.ignoreKeep /\ keepCount > 0
        THEN IF Len(all) <= keepCount THEN <<>>
             ELSE SubSeq(all, 1, Len(all) - keepCount)
        ELSE all

\* steps 3-5 of trim (lines 132-149), reached after detection
WithEntries(call, combats) ==
    LET entries == createArchiveEntries(combats,
                                        classifyMessages(call.messages, combatActive),
                                        combatActive)
    IN  [call EXCEPT !.pc = "create", !.combats = combats, !.entries = entries,
                     !.stats = calculateStatistics(entries, combats)]

\* a faulty variant: trim without the test of an empty batch (lines 66-72)
Started_NoEmptyTest(options) ==
    LET batch == BatchOf(options)
        running == Call("detect", options, batch, <<>>, <<>>, NoStats, "pending", "")
    IN  IF ~settings.enableArchiving THEN [running EXCEPT !.pc = "deleteNoArchive"]
        ELSE IF ClassifyThrows(batch) THEN ReturnedNull(options, batch, "classify")
        ELSE IF settings.enableCombatCompression
                /\ Len(classifyMessages(batch, combatActive).combat) > 0
             THEN running
        ELSE WithEntries(running, <<>>)

\* trim from its first line to its first await or return, for a call the lock
\* lets in
Started(options) ==
    LET batch == BatchOf(options)
        running == Call("detect", options, batch, <<>>, <<>>, NoStats, "pending", "")
    IN  IF batch = <<>> THEN ReturnedNull(options, batch, "")
        ELSE IF ~settings.enableArchiving THEN [running EXCEPT !.pc = "deleteNoArchive"]
        ELSE IF ClassifyThrows(batch) THEN ReturnedNull(options, batch, "classify")
        ELSE IF settings.enableCombatCompression
                /\ Len(classifyMessages(batch, combatActive).combat) > 0
             THEN running
        ELSE WithEntries(running, <<>>)

\* what is recorded of a call that returned: the options it was given, the
\* batch it took, what it returned and where it threw
Finished(call) ==
    [Call("done", call.options, call.messages, <<>>, <<>>, NoStats, call.ret, call.threw)
        EXCEPT !.client = call.client]

\* a faulty variant: trim without its finally block
Return_NoRelease(c, call) ==
    /\ returned' = Finished(call)
    /\ calls' = SubSeq(calls, 1, c - 1) \o SubSeq(calls, c + 1, Len(calls))
    /\ UNCHANGED <<isTrimming, peer>>

\* a call leaves trim: its finally block releases the lock of the ChatTrimmer
\* that runs it (line 193)
Return(c, call) ==
    /\ returned' = Finished(call)
    /\ calls' = SubSeq(calls, 1, c - 1) \o SubSeq(calls, c + 1, Len(calls))
    /\ IF call.client = 1
       THEN /\ isTrimming' = FALSE
            /\ UNCHANGED peer
       ELSE /\ peer' = [peer EXCEPT !.isTrimming = FALSE]
            /\ UNCHANGED isTrimming

\* a call goes on to its next await
Await(c, call) ==
    /\ calls' = [calls EXCEPT ![c] = call]
    /\ UNCHANGED <<returned, isTrimming, peer>>

\* a call of trim arrives
Trim ==
    /\ ncalls < MaxCalls
    /\ ncalls' = ncalls + 1
    /\ \E ignoreKeep \in BOOLEAN, keepOriginals \in BOOLEAN :
          LET options == [ignoreKeep |-> ignoreKeep, keepOriginals |-> keepOriginals] IN
          IF AlreadyInProgress
          THEN /\ returned' = ReturnedNull(options, <<>>, "rejected")
               /\ UNCHANGED <<calls, isTrimming>>
          ELSE IF InFlight(Started(options))
          THEN /\ calls' = Append(calls, Started(options))
               /\ isTrimming' = TRUE
               /\ UNCHANGED returned
          ELSE /\ returned' = Started(options)
               /\ isTrimming' = FALSE
               /\ UNCHANGED calls
    /\ UNCHANGED <<messages, combatActive, settings, archives, files, deleted, pass,
                   dialogs, auto, peer>>

\* detect() resolves
TrimDetect ==
    \E c \in 1..Len(calls) :
        /\ calls[c].pc = "detect"
        /\ Await(c, WithEntries(calls[c],
                     detect(classifyMessages(calls[c].messages, combatActive).combat)))
        /\ UNCHANGED <<messages, combatActive, settings, ncalls, archives, files,
                       deleted, pass, dialogs, auto>>

\* the data object handed to archiveManager.create (lines 153-159)
ArchiveData(call) ==
    [entries |-> call.entries, stats |-> call.stats,
     searchIndex |-> buildSearchIndex(call.entries),
     originalMessageCount |-> Len(call.messages),
     compressedEntryCount |-> Len(call.entries)]

\* trim after archiveManager.create returned: on to deleteDocuments, or to the
\* return when the originals are kept
AfterCreate(c, call) ==
    IF call.options.keepOriginals
    THEN Return(c, [call EXCEPT !.pc = "done", !.ret = "result"])
    ELSE Await(c, [call EXCEPT !.pc = "delete"])

\* trim's catch block (lines 186-191)
Caught(call, where) == [call EXCEPT !.pc = "done", !.ret = "null", !.threw = where]

\* archiveManager.create resolves or rejects.  fetchOk: the fetch of the external
\* file succeeds; saveOk: _saveToExternalFile succeeds; journalOk:
\* JournalEntry.create / archive.update succeeds.
TrimCreate ==
    \E c \in 1..Len(calls), fetchOk \in BOOLEAN, saveOk \in BOOLEAN, journalOk \in BOOLEAN :
        LET call == calls[c]
            data == ArchiveData(call)
            sessionNumber == settings.currentSessionNumber
            a == getArchive(archives, sessionNumber)
            toExternal == IF a = 0 THEN settings.storageType = "external"
                          ELSE archives[a].storageType = "external"
            stored == IF a = 0 THEN NewArchive(data, sessionNumber,
                                               settings.currentSessionName,
                                               IF toExternal /\ saveOk
                                               THEN "external" ELSE "journal")
                      ELSE AppendedArchive(archives[a], data,
                                           getArchiveEntries(archives[a], files, fetchOk))
            fileEntries == IF a = 0 THEN data.entries
                           ELSE MergeEntries(getArchiveEntries(archives[a], files, fetchOk),
                                             data.entries)
        IN  /\ call.pc = "create"
            /\ IF toExternal /\ saveOk THEN
                  \* the file is written and the index record created or updated
                  /\ files' = [s \in DOMAIN files \cup {sessionNumber} |->
                                  IF s = sessionNumber THEN fileEntries ELSE files[s]]
                  /\ archives' = IF a = 0 THEN Append(archives, stored)
                                 ELSE [archives EXCEPT ![a] = stored]
                  /\ AfterCreate(c, call)
               ELSE IF toExternal /\ a # 0 THEN
                  \* appendToArchive catches the failed upload and returns the archive
                  /\ UNCHANGED <<files, archives>>
                  /\ AfterCreate(c, call)
               ELSE IF journalOk THEN
                  \* journal storage, also as create()'s fallback from a failed upload
                  /\ archives' = IF a = 0 THEN Append(archives, stored)
                                 ELSE [archives EXCEPT ![a] = stored]
                  /\ UNCHANGED files
                  /\ AfterCreate(c, call)
               ELSE
                  \* JournalEntry.create / archive.update rejects: create throws
                  /\ UNCHANGED <<files, archives>>
                  /\ Return(c, Caught(call, "create"))
            /\ UNCHANGED <<messages, combatActive, settings, ncalls, deleted, pass, dialogs, auto>>

\* ChatMessage.deleteDocuments(messageIds)
DeleteDocuments(batch) ==
    SelectSeq(messages, LAMBDA m : \A i \in 1..Len(batch) : batch[i].id # m.id)

\* the messages a deleteDocuments(batch) removes from the log
Removed(batch) == SeqToSet(batch) \cap SeqToSet(messages)

\* deleteDocuments resolves (the messages are gone) or rejects, after archiving
TrimDelete ==
    \E c \in 1..Len(calls), deleteOk \in BOOLEAN :
        /\ calls[c].pc = "delete"
        /\ IF deleteOk
           THEN /\ messages' = DeleteDocuments(calls[c].messages)
                /\ deleted' = deleted \cup Removed(calls[c].messages)
                /\ Return(c, [calls[c] EXCEPT !.pc = "done", !.ret = "result"])
           ELSE /\ UNCHANGED <<messages, deleted>>
                /\ Return(c, Caught(calls[c], "delete"))
        /\ UNCHANGED <<combatActive, settings, ncalls, archives, files, pass, dialogs, auto>>

\* the same with archiving disabled (lines 79-95)
TrimDeleteNoArchive ==
    \E c \in 1..Len(calls), deleteOk \in BOOLEAN :
        /\ calls[c].pc = "deleteNoArchive"
        /\ IF deleteOk
           THEN /\ messages' = DeleteDocuments(calls[c].messages)
                /\ deleted' = deleted \cup Removed(calls[c].messages)
                /\ Return(c, [calls[c] EXCEPT !.pc = "done", !.ret = "result"])
           ELSE /\ UNCHANGED <<messages, deleted>>
                /\ Return(c, Caught(calls[c], "delete"))
        /\ UNCHANGED <<combatActive, settings, ncalls, archives, files, pass, dialogs, auto>>

Next ==
    \/ CreateChatMessage
    \/ Trim
    \/ TrimDetect
    \/ TrimCreate
    \/ TrimDelete
    \/ TrimDeleteNoArchive

Spec == Init /\ [][Next]_vars

(***************************************************************************)
(* Sessions.  The "New Session" button opens a dialog that shows the next  *)
(* session number; confirming it writes that number to the settings.       *)
(* Passes run between and during the dialogs.                              *)
(***************************************************************************)
MaxSession == 3

\* `Session ${newNumber}`
SessionName(newNumber) ==
    <<"Session 1", "Session 2", "Session 3", "Session 4">>[newNumber]

Max(a, b) == IF a >= b THEN a ELSE b

\* onNewSession: currentNumber, the higher of the setting and of the session
\* numbers of the archiveIndex (the external archives)
CurrentNumber ==
    LET indexed == {archives[a].sessionNumber :
                       a \in {b \in 1..Len(archives) : archives[b].storageType = "external"}}
    IN  IF indexed = {} THEN settings.currentSessionNumber
        ELSE Max(settings.currentSessionNumber,
                 CHOOSE n \in indexed : \A m \in indexed : m <= n)

\* the GM clicks "New Session": the dialog is rendered with currentNumber
OpenNewSession ==
    /\ CurrentNumber < MaxSession
    /\ dialogs' = dialogs \cup {CurrentNumber}
    /\ UNCHANGED <<messages, combatActive, settings, trimState, pass, auto>>

\* "Start New Session" is clicked in an open dialog; further dialogs showing the
\* same number may remain open
ConfirmNewSession ==
    \E currentNumber \in dialogs :
        /\ settings' = [settings EXCEPT !.currentSessionNumber = currentNumber + 1,
                                      !.currentSessionName =
                                          SessionName(currentNumber + 1)]
        /\ dialogs' \in {dialogs, dialogs \ {currentNumber}}
        /\ UNCHANGED <<messages, combatActive, trimState, pass, auto>>

\* getNextSessionNumber of scripts/archive-manager.js
getNextSessionNumber(archiveList) ==
    LET numbers == {archiveList[a].sessionNumber : a \in 1..Len(archiveList)}
    IN  IF numbers = {} THEN 1
        ELSE (CHOOSE n \in numbers : \A m \in numbers : m <= n) + 1

\* create() of scripts/archive-manager.js, the module main.js imports: the
\* archive is numbered by getNextSessionNumber and nothing is looked up
TrimCreateNext ==
    \E c \in 1..Len(calls), saveOk \in BOOLEAN, journalOk \in BOOLEAN :
        LET call == calls[c]
            data == ArchiveData(call)
            sessionNumber == getNextSessionNumber(archives)
            toExternal == settings.storageType = "external"
            stored == NewArchive(data, sessionNumber, settings.currentSessionName,
                                 IF toExternal /\ saveOk THEN "external" ELSE "journal")
        IN  /\ call.pc = "create"
            /\ IF toExternal /\ saveOk THEN
                  /\ files' = [s \in DOMAIN files \cup {sessionNumber} |->
                                  IF s = sessionNumber THEN data.entries ELSE files[s]]
                  /\ archives' = Append(archives, stored)
                  /\ AfterCreate(c, call)
               ELSE IF journalOk THEN
                  /\ archives' = Append(archives, stored)
                  /\ UNCHANGED files
                  /\ AfterCreate(c, call)
               ELSE
                  /\ UNCHANGED <<files, archives>>
                  /\ Return(c, Caught(call, "create"))
            /\ UNCHANGED <<messages, combatActive, settings, ncalls, deleted, pass, dialogs, auto>>

SessionInit ==
    /\ messages = <<>>
    /\ combatActive = FALSE
    /\ settings \in [messagesToKeep : {0}, enableArchiving : {TRUE},
                     enableCombatCompression : {TRUE},
                     storageType : {"journal", "external"},
                     currentSessionNumber : {1},
                     currentSessionName : {"Session 1"}]
    /\ TrimInit
    /\ pass = NoPass

\* the modules of src/scripts: main.js, trimmer.js and archive-manager.js
SessionNext ==
    \/ CreateChatMessage
    \/ Trim
    \/ TrimDetect
    \/ TrimCreateNext
    \/ TrimDelete
    \/ OpenNewSession
    \/ ConfirmNewSession

SpecSession == SessionInit /\ [][SessionNext]_vars

\* the same with the ArchiveManager whose create() appends
SessionNextAppend ==
    \/ CreateChatMessage
    \/ Trim
    \/ TrimDetect
    \/ TrimCreate
    \/ TrimDelete
    \/ OpenNewSession
    \/ ConfirmNewSession

SpecSessionAppend == SessionInit /\ [][SessionNextAppend]_vars

(***************************************************************************)
(* The end of a session.  "Return to Setup" opens the "End Session?"       *)
(* dialog with the session name read at the click; "Yes, End Session"      *)
(* increments the name and shuts the game down, after which the world is   *)
(* launched again with its messages, settings and archives.                *)
(***************************************************************************)
\* current.match(/Session (\d+)/i) with parseInt(match[1]); 0 without a match
SessionMatch(current) ==
    IF \E n \in 1..MaxSession : current = SessionName(n)
    THEN CHOOSE n \in 1..MaxSession : current = SessionName(n)
    ELSE 0

\* incrementSessionName: the value written to currentSessionName
incrementSessionName(current) ==
    IF SessionMatch(current) # 0
    THEN SessionName(SessionMatch(current) + 1)
    ELSE <<current, " (Next)">>

\* game.shutDown(): the clients leave the world, so the passes in flight and
\* the open dialogs are gone; what the world stores stays
ShutDown ==
    /\ isTrimming' = FALSE
    /\ calls' = <<>>
    /\ dialogs' = {}
    /\ peer' = NoPeer
    /\ UNCHANGED <<messages, combatActive, returned, ncalls, archives, files, deleted,
                   pass, auto>>

\* the GM clicks "Return to Setup": the dialog is rendered with currentSession
ReturnToSetup ==
    /\ SessionMatch(settings.currentSessionName) < MaxSession
    /\ dialogs' = dialogs \cup {settings.currentSessionName}
    /\ UNCHANGED <<messages, combatActive, settings, trimState, pass, auto>>

\* "Yes, End Session"
EndSession ==
    \E currentSession \in dialogs :
        /\ settings' = [settings EXCEPT
                           !.currentSessionName = incrementSessionName(currentSession)]
        /\ ShutDown

\* "No, Just Exit"
JustExit ==
    /\ dialogs # {}
    /\ UNCHANGED settings
    /\ ShutDown

EndSessionNext ==
    \/ CreateChatMessage
    \/ Trim
    \/ TrimDetect
    \/ TrimCreate
    \/ TrimDelete
    \/ ReturnToSetup
    \/ EndSession
    \/ JustExit

SpecEndSession == SessionInit /\ [][EndSessionNext]_vars

(***************************************************************************)
(* Automatic trimming by time.  The clock counts hours; Date.now() is      *)
(* ReadyTime when the ready hook runs.  checkAutoTrim runs from the ready  *)
(* hook and from setInterval; performAutoTrim calls trim() with no options *)
(* and writes lastTrimTime when trim has returned.                         *)
(***************************************************************************)
MaxHours == 3

\* Date.now() at the ready hook, in hours: a positive number
ReadyTime == 1

AutoInit ==
    /\ messages = <<>>
    /\ combatActive = FALSE
    /\ settings = [InitSettings EXCEPT !.enableCombatCompression = TRUE]
    /\ isTrimming = FALSE
    /\ calls = <<>>
    /\ returned = NoCall
    /\ ncalls = 0
    /\ archives = <<>>
    /\ files = <<>>
    /\ deleted = {}
    /\ dialogs = {}
    /\ pass = NoPass
    /\ peer = NoPeer
    /\ auto \in [autoTrimMethod : {"time"}, timeThreshold : {1, 2},
                 pauseTimerWithGame : BOOLEAN, paused : {FALSE}, isGM : BOOLEAN,
                 now : {ReadyTime}, lastTrimTime : {0, ReadyTime},
                 awaiting : {FALSE}, autoTrims : {0},
                 interval : {FALSE}, messageThreshold : {1}, timers : {0}]

\* an hour passes
Tick ==
    /\ auto.now < ReadyTime + MaxHours
    /\ auto' = [auto EXCEPT !.now = @ + 1]
    /\ UNCHANGED <<messages, combatActive, settings, trimState, pass, dialogs>>

\* the GM pauses or resumes the game
TogglePause ==
    /\ auto' = [auto EXCEPT !.paused = ~@]
    /\ UNCHANGED <<messages, combatActive, settings, trimState, pass, dialogs>>

\* the test of checkAutoTrim's time branch (lines 671-692)
TimeThresholdReached ==
    /\ ~(auto.pauseTimerWithGame /\ auto.paused)
    /\ auto.lastTrimTime > 0
    /\ auto.now - auto.lastTrimTime >= auto.timeThreshold

\* performAutoTrim after trim() returned: lastTrimTime = Date.now()
TrimReturned(a) == [a EXCEPT !.awaiting = FALSE, !.lastTrimTime = a.now]

\* performAutoTrim once chatTrimmer.trim() has run up to its first await or
\* its return, started being the call's state at that point
AwaitTrim(a, started) ==
    IF ~a.isGM
    THEN /\ auto' = a
         /\ UNCHANGED <<isTrimming, calls, returned, ncalls>>
    ELSE /\ ncalls' = ncalls + 1
         /\ IF AlreadyInProgress
            THEN /\ returned' = ReturnedNull(NoOptions, <<>>, "rejected")
                 /\ auto' = [a EXCEPT !.autoTrims = @ + 1, !.lastTrimTime = a.now]
                 /\ UNCHANGED <<calls, isTrimming>>
            ELSE IF InFlight(started)
            THEN /\ calls' = Append(calls, started)
                 /\ isTrimming' = TRUE
                 /\ auto' = [a EXCEPT !.autoTrims = @ + 1, !.awaiting = TRUE]
                 /\ UNCHANGED returned
            ELSE /\ returned' = started
                 /\ isTrimming' = FALSE
                 /\ auto' = TrimReturned([a EXCEPT !.autoTrims = @ + 1])
                 /\ UNCHANGED calls

\* performAutoTrim up to its await: nothing for a user who is not the GM, else
\* chatTrimmer.trim() is called with no options; a call the lock rejects
\* returns at once and lastTrimTime is written
PerformAutoTrim(a) ==
    AwaitTrim(a, Started(NoOptions))

\* checkAutoTrim with autoTrimMethod = time, run by the ready hook and by
\* setInterval; interval is the parity of the number of checks run
CheckAutoTrim ==
    /\ auto.autoTrimMethod = "time"
    /\ ~auto.awaiting \/ isTrimming
    /\ LET checked == [auto EXCEPT !.interval = ~@] IN
       IF TimeThresholdReached
       THEN PerformAutoTrim(checked)
       ELSE /\ auto' = checked
            /\ UNCHANGED <<isTrimming, calls, returned, ncalls>>
    /\ UNCHANGED <<messages, combatActive, settings, archives, files, deleted, pass,
                   dialogs, peer>>

\* the pass performAutoTrim awaits has returned: lastTrimTime is written
PerformAutoTrimResumes ==
    /\ auto.awaiting
    /\ \A c \in 1..Len(calls) : calls[c].client # 1
    /\ auto' = TrimReturned(auto)
    /\ UNCHANGED <<messages, combatActive, settings, trimState, pass, dialogs>>

AutoNext ==
    \/ CreateChatMessage
    \/ Tick
    \/ TogglePause
    \/ CheckAutoTrim
    \/ TrimDetect
    \/ TrimCreate
    \/ TrimDelete
    \/ PerformAutoTrimResumes

\* time passes, setInterval keeps running the check, and performAutoTrim goes on
\* once the pass it awaits has returned
SpecAutoTrim ==
    /\ AutoInit
    /\ [][AutoNext]_vars
    /\ WF_vars(Tick)
    /\ WF_vars(CheckAutoTrim)
    /\ WF_vars(PerformAutoTrimResumes)

(***************************************************************************)
(* Automatic trimming by message count.  The createChatMessage hook        *)
(* compares game.messages.size with messagesToKeep + messageThreshold and  *)
(* schedules performAutoTrim 100 ms later; checkAutoTrim makes the same    *)
(* comparison and calls performAutoTrim at once.  timers is the number of  *)
(* scheduled calls that have not run yet.                                  *)
(***************************************************************************)
MaxLog == 3

MaxAutoCalls == 2

CountKinds == {SpeechText, InitiativeRoll}

CountInit ==
    /\ messages = <<>>
    /\ combatActive = FALSE
    /\ settings \in {[InitSettings EXCEPT !.messagesToKeep = k] : k \in {0, 1}}
    /\ isTrimming = FALSE
    /\ calls = <<>>
    /\ returned = NoCall
    /\ ncalls = 0
    /\ archives = <<>>
    /\ files = <<>>
    /\ deleted = {}
    /\ dialogs = {}
    /\ pass = NoPass
    /\ peer = NoPeer
    /\ auto \in {[NoAuto EXCEPT !.autoTrimMethod = "messageCount", !.now = ReadyTime,
                                !.messageThreshold = t] : t \in {1, 2}}

\* messageCount >= trimAt, with trimAt = messagesToKeep + messageThreshold
MessageThresholdReached(log) ==
    Len(log) >= settings.messagesToKeep + auto.messageThreshold

\* Foundry creates a chat message and the createChatMessage hook runs
CreateChatMessageHook ==
    /\ NextId <= MaxLog
    /\ \E kind \in CountKinds :
          messages' = Append(messages, ChatMessage(kind, NextId, NextId * 1000))
    /\ auto' = IF auto.autoTrimMethod = "messageCount" /\ MessageThresholdReached(messages')
               THEN [auto EXCEPT !.timers = @ + 1]
               ELSE auto
    /\ UNCHANGED <<combatActive, settings, trimState, pass, dialogs>>

\* a scheduled setTimeout(() => performAutoTrim(), 100) runs
TimerFires ==
    /\ auto.timers > 0
    /\ ncalls < MaxAutoCalls
    /\ LET fired == [auto EXCEPT !.timers = @ - 1] IN PerformAutoTrim(fired)
    /\ UNCHANGED <<messages, combatActive, settings, archives, files, deleted, pass,
                   dialogs, peer>>

\* checkAutoTrim with autoTrimMethod = messageCount (lines 654-668), run by the
\* ready hook and by setInterval
CheckMessageCount ==
    /\ auto.autoTrimMethod = "messageCount"
    /\ ncalls < MaxAutoCalls
    /\ ~auto.awaiting
    /\ LET checked == [auto EXCEPT !.interval = ~@] IN
       IF MessageThresholdReached(messages)
       THEN PerformAutoTrim(checked)
       ELSE /\ auto' = checked
            /\ UNCHANGED <<isTrimming, calls, returned, ncalls>>
    /\ UNCHANGED <<messages, combatActive, settings, archives, files, deleted, pass,
                   dialogs, peer>>

CountNext ==
    \/ CreateChatMessageHook
    \/ TimerFires
    \/ CheckMessageCount
    \/ TrimDetect
    \/ TrimCreate
    \/ TrimDelete
    \/ PerformAutoTrimResumes

SpecCountTrim == CountInit /\ [][CountNext]_vars

(***************************************************************************)
(* Two GM clients in one world.  Each client loads the module and has its  *)
(* own ChatTrimmer, so its own _isTrimming; the log, the settings and the  *)
(* archives are the world's.  The createChatMessage hook runs on both      *)
(* clients and performAutoTrim lets every GM through.                      *)
(***************************************************************************)
\* the createChatMessage hooks of the two clients: each schedules its own
\* performAutoTrim
CreateChatMessageHooks ==
    /\ NextId <= MaxLog
    /\ \E kind \in CountKinds :
          messages' = Append(messages, ChatMessage(kind, NextId, NextId * 1000))
    /\ IF auto.autoTrimMethod = "messageCount" /\ MessageThresholdReached(messages')
       THEN /\ auto' = [auto EXCEPT !.timers = @ + 1]
            /\ peer' = [peer EXCEPT !.timers = @ + 1]
       ELSE UNCHANGED <<auto, peer>>
    /\ UNCHANGED <<combatActive, settings, isTrimming, calls, returned, ncalls, archives,
                   files, deleted, pass, dialogs>>

\* performAutoTrim on the second client up to its await: trim() tests the
\* _isTrimming of that client's ChatTrimmer
PeerAwaitTrim(p, started) ==
    /\ ncalls' = ncalls + 1
    /\ IF peer.isTrimming
       THEN /\ returned' = [ReturnedNull(NoOptions, <<>>, "rejected") EXCEPT !.client = 2]
            /\ peer' = p
            /\ auto' = [auto EXCEPT !.lastTrimTime = auto.now]
            /\ UNCHANGED calls
       ELSE IF InFlight(started)
       THEN /\ calls' = Append(calls, [started EXCEPT !.client = 2])
            /\ peer' = [p EXCEPT !.isTrimming = TRUE, !.awaiting = TRUE]
            /\ UNCHANGED <<returned, auto>>
       ELSE /\ returned' = [started EXCEPT !.client = 2]
            /\ peer' = [p EXCEPT !.isTrimming = FALSE]
            /\ auto' = [auto EXCEPT !.lastTrimTime = auto.now]
            /\ UNCHANGED calls

\* a scheduled performAutoTrim of the second client runs
PeerTimerFires ==
    /\ peer.timers > 0
    /\ ncalls < MaxAutoCalls
    /\ LET fired == [peer EXCEPT !.timers = @ - 1] IN
       PeerAwaitTrim(fired, Started(NoOptions))
    /\ UNCHANGED <<messages, combatActive, settings, isTrimming, archives, files, deleted,
                   pass, dialogs>>

\* the pass the second client's performAutoTrim awaits has returned:
\* lastTrimTime is written
PeerAutoTrimResumes ==
    /\ peer.awaiting
    /\ \A c \in 1..Len(calls) : calls[c].client # 2
    /\ peer' = [peer EXCEPT !.awaiting = FALSE]
    /\ auto' = [auto EXCEPT !.lastTrimTime = auto.now]
    /\ UNCHANGED <<messages, combatActive, settings, isTrimming, calls, returned, ncalls,
                   archives, files, deleted, pass, dialogs>>

TwoClientNext ==
    \/ CreateChatMessageHooks
    \/ TimerFires
    \/ PeerTimerFires
    \/ TrimDetect
    \/ TrimCreate
    \/ TrimDelete
    \/ PerformAutoTrimResumes
    \/ PeerAutoTrimResumes

SpecTwoClients == CountInit /\ [][TwoClientNext]_vars

(***************************************************************************)
(* Properties of one pass                                                  *)
(***************************************************************************)
RECURSIVE EntryMessageIds(_)
EntryMessageIds(entries) ==
    IF entries = <<>> THEN <<>>
    ELSE entries[1].originalMessageIds \o EntryMessageIds(Tail(entries))

BatchIds == {messages[i].id : i \in 1..Len(messages)}

\* C1: Completeness. The originalMessageIds lists of the entries of a pass, taken
\* together, hold every id of the batch exactly once (no loss, no duplicate),
\* with combat compression on or off.
C1_Completeness ==
    pass.ran =>
        LET ids == EntryMessageIds(pass.entries) IN
        /\ SeqToSet(ids) = BatchIds
        /\ Len(ids) = Cardinality(BatchIds)

\* a pass with a combat entry that absorbed several messages next to an
\* individual entry
C1_Witness ==
    /\ pass.ran
    /\ \E i, j \in 1..Len(pass.entries) :
          /\ pass.entries[i].type = "combat"
          /\ Len(pass.entries[i].originalMessageIds) >= 2
          /\ pass.entries[j].type = "individual"

\* the ids absorbed by the encounters of the pass
AbsorbedIds == CombatMessageIds(pass.combats)

HasOwnEntry(msg) ==
    \E i \in 1..Len(pass.entries) :
        /\ pass.entries[i].type = "individual"
        /\ pass.entries[i].originalMessageIds = <<msg.id>>

CriticalOfBatch == {messages[i] : i \in {j \in 1..Len(messages) : isCriticalMessage(messages[j])}}

MessageById(id) == CHOOSE m \in SeqToSet(messages) : m.id = id

\* C10: Timeout closure. No encounter absorbs a record whose timestamp is more
\* than combatTimeout after the previously absorbed record of that encounter.
C10_NoAbsorbAfterTimeout ==
    pass.ran =>
        \A c \in 1..Len(pass.combats) :
            LET ids == pass.combats[c].originalMessageIds IN
            \A i \in 1..(Len(ids) - 1) :
                MessageById(ids[i + 1]).timestamp - MessageById(ids[i]).timestamp
                    <= combatTimeout

\* C9: Combat closure. For a stream of one start signal, in-combat records
\* announced over rounds 1 and 2 (attack/damage pairs, possibly a critical hit and
\* a death) and one end signal, with no gap above the timeout, the detector emits
\* exactly one encounter that absorbs every record and has two rounds, and the
\* pass produces exactly one entry.
C9_ClosureOneEncounter ==
    (pass.ran /\ isCombatStart(messages[1]) /\ StreamEnded
        /\ AnnouncesRound(1) /\ AnnouncesRound(2)) =>
        /\ Len(pass.combats) = 1
        /\ SeqToSet(pass.combats[1].originalMessageIds) = BatchIds
        /\ Len(pass.combats[1].rounds) = 2
        /\ Len(pass.entries) = 1

\* C11: with enableCombatCompression off the detector is not run and the pass
\* has no combat entry: every message of the batch, those of the combat bucket
\* included, comes out as its own individual entry.
C11_NoCompressionAllIndividual ==
    (pass.ran /\ ~settings.enableCombatCompression) =>
        /\ pass.combats = <<>>
        /\ \A i \in 1..Len(pass.entries) : pass.entries[i].type = "individual"
        /\ \A i \in 1..Len(messages) : HasOwnEntry(messages[i])
        /\ Len(pass.entries) = Len(messages)

\* compression is off and the combat bucket of the batch holds an encounter the
\* detector would have found
C11_Witness ==
    /\ pass.ran
    /\ ~settings.enableCombatCompression
    /\ detect(classifyMessages(messages, combatActive).combat) # <<>>

\* an attack roll: a roll that MessageParser.identifyRollType names "Attack"
IsAttackRoll(msg) == isRoll(msg) /\ identifyRollType(msg) = "Attack"

\* the entries of the pass that carry a category set, with their message
CategorisedEntries ==
    {i \in 1..Len(pass.entries) :
        pass.entries[i].type = "individual" /\ pass.entries[i].categories # <<>>}

\* C14: Classification additivity. While a combat is active, the category set of
\* an attack roll holds both "combat" and "rolls", in determineMessageCategories
\* and in the entry built from it, whether or not the roll carries a pf2e
\* context flag.
C14_AttackRollCombatAndRolls ==
    (pass.ran /\ combatActive) =>
        /\ \A i \in 1..Len(messages) :
              IsAttackRoll(messages[i]) =>
                 {"combat", "rolls"} \subseteq
                    SeqToSet(determineMessageCategories(messages[i], combatActive))
        /\ \A i \in CategorisedEntries :
              IsAttackRoll(pass.entries[i].originalMessage[1]) =>
                 {"combat", "rolls"} \subseteq SeqToSet(pass.entries[i].categories)

\* C15: outside active combat no roll is tagged "combat": the category set of a
\* roll categorised while no combat is active does not hold "combat", in
\* determineMessageCategories and in the entry built from it.
C15_NoCombatTagOutsideCombat ==
    (pass.ran /\ ~combatActive) =>
        /\ \A i \in 1..Len(messages) :
              isRoll(messages[i]) =>
                 "combat" \notin SeqToSet(determineMessageCategories(messages[i], combatActive))
        /\ \A i \in CategorisedEntries :
              isRoll(pass.entries[i].originalMessage[1]) =>
                 "combat" \notin SeqToSet(pass.entries[i].categories)

\* outside active combat an attack roll came out as an individual entry tagged
\* "rolls" only
C15_Witness ==
    /\ pass.ran
    /\ ~combatActive
    /\ \E i \in CategorisedEntries :
          /\ IsAttackRoll(pass.entries[i].originalMessage[1])
          /\ pass.entries[i].categories = <<"rolls">>

\* C16: the entry list of a pass is in non-decreasing timestamp order, a combat
\* entry standing at the startTime of its encounter and an individual entry at
\* the timestamp of its message.
C16_EntriesChronological ==
    pass.ran =>
        /\ \A i, j \in 1..Len(pass.entries) :
              i < j => pass.entries[i].timestamp <= pass.entries[j].timestamp
        /\ \A i \in 1..Len(pass.entries) :
              IF pass.entries[i].type = "combat"
              THEN pass.entries[i].timestamp = pass.entries[i].summary[1].startTime
              ELSE pass.entries[i].timestamp = pass.entries[i].originalMessage[1].timestamp

\* a combat entry stands between an earlier and a later individual entry
C16_Witness ==
    /\ pass.ran
    /\ \E i, j, k \in 1..Len(pass.entries) :
          /\ i < j /\ j < k
          /\ pass.entries[i].type = "individual"
          /\ pass.entries[j].type = "combat"
          /\ pass.entries[k].type = "individual"

\* C23: Key-event triggers are a superset of the critical triggers. Every
\* message of the batch for which isCriticalMessage holds is a key event, and
\* the individual entry the pass makes of it is flagged isKeyEvent.
C23_CriticalIsKeyEvent ==
    /\ \A i \in 1..Len(messages) :
          isCriticalMessage(messages[i]) => isKeyEvent(messages[i])
    /\ pass.ran =>
          \A e \in 1..Len(pass.entries) :
              (pass.entries[e].type = "individual"
                  /\ isCriticalMessage(pass.entries[e].originalMessage[1]))
                => pass.entries[e].isKeyEvent

\* the pass has made the entries of two messages with different critical triggers
C23_Witness ==
    /\ pass.ran
    /\ Len(pass.entries) = 2
    /\ \A e \in 1..2 : /\ pass.entries[e].type = "individual"
                       /\ isCriticalMessage(pass.entries[e].originalMessage[1])
                       /\ pass.entries[e].isKeyEvent
    /\ pass.entries[1].originalMessage[1].content
          # pass.entries[2].originalMessage[1].content

\* C34: Every entry produced by a pass carries a non-empty categories set: an
\* individual entry, the entry of a critical message included, carries the full
\* category set determineMessageCategories computes for its message, and a
\* combat summary entry carries the combat category.
C34_EveryEntryHasCategories ==
    pass.ran =>
        \A e \in 1..Len(pass.entries) :
            LET entry == pass.entries[e] IN
            /\ entry.categories # <<>>
            /\ entry.type = "individual" =>
                  entry.categories
                      = determineMessageCategories(entry.originalMessage[1], combatActive)
            /\ entry.type = "combat" => entry.categories = <<"combat">>

(***************************************************************************)
(* Claims on the combat detector                                           *)
(***************************************************************************)
\* C21: Encounter outcome. A finalized encounter has outcome Defeat if at least
\* one of its casualties is the name of a player-owned actor, otherwise Victory
\* if it has at least one casualty, otherwise Unknown.
C21_EncounterOutcome ==
    pass.ran =>
        \A c \in 1..Len(pass.combats) :
            LET combat == pass.combats[c]
                casualties == SeqToSet(combat.casualties)
            IN  combat.outcome =
                    IF \E name \in casualties : name \in Actors /\ hasPlayerOwner(name)
                    THEN "Defeat"
                    ELSE IF casualties # {} THEN "Victory"
                    ELSE "Unknown"

\* one pass has produced an encounter lost to the death of a player character
\* and an encounter won with the death of a creature
C21_Witness ==
    /\ pass.ran
    /\ {"Defeat", "Victory"} \subseteq
          {pass.combats[c].outcome : c \in 1..Len(pass.combats)}

\* the damage of the actions whose acting name is one of names
RECURSIVE DamageOf(_, _)
DamageOf(actions, names) ==
    IF actions = <<>> THEN 0
    ELSE (IF actions[1].damage > 0 /\ actions[1].actor \in names
          THEN actions[1].damage ELSE 0) + DamageOf(Tail(actions), names)

\* C22: Damage attribution. In a finalized encounter totalDamageDealt is the
\* damage of the actions whose acting name is that of a player-owned actor and
\* totalDamageTaken the damage of the actions whose acting name is that of an
\* actor that is not player-owned; the damage of an action whose acting name is
\* no actor's name is in neither.
C22_UnresolvedDamageNotCounted ==
    pass.ran =>
        \A c \in 1..Len(pass.combats) :
            LET combat == pass.combats[c]
                actions == AllActions(combat.rounds)
            IN  /\ combat.stats.totalDamageDealt =
                      DamageOf(actions, {n \in Actors : hasPlayerOwner(n)})
                /\ combat.stats.totalDamageTaken =
                      DamageOf(actions, {n \in Actors : ~hasPlayerOwner(n)})

\* the detector has an encounter open when it reads the i-th record of its input
OpenAt(i) == DetectBefore(i).currentCombat.active

\* C26: While an encounter is open, a record that matches a combat-end signal
\* (and no start signal) finalizes the encounter, with the record as its last
\* message and the record's timestamp as endTime, and leaves the detector Idle,
\* also when the record contains a combat keyword or is a combat roll.
C26_EndSignalFinalizes ==
    pass.ran =>
        \A i \in 1..Len(DetectorInput) :
            LET msg == DetectorInput[i]
                before == DetectBefore(i)
                after == DetectAfter(i)
            IN  (OpenAt(i) /\ isCombatEnd(msg) /\ ~isCombatStart(msg)) =>
                    /\ ~after.currentCombat.active
                    /\ Len(after.combats) = Len(before.combats) + 1
                    /\ LET combat == after.combats[Len(after.combats)] IN
                       /\ combat.endTime = msg.timestamp
                       /\ combat.originalMessageIds[Len(combat.originalMessageIds)] = msg.id

\* the i-th record arrives more than the timeout after the last absorbed one
LaterThanTimeout(i) == TimedOut(DetectBefore(i), DetectorInput[i])

\* C27: While an encounter is open, every record of the detector's input that is
\* neither an end signal nor later than the timeout (nor a start signal) is
\* absorbed into the open encounter: the encounter stays open and the record is
\* the last of its messages.
C27_NoRecordSkipped ==
    pass.ran =>
        \A i \in 1..Len(DetectorInput) :
            LET msg == DetectorInput[i]
                before == DetectBefore(i)
                after == DetectAfter(i)
            IN  (OpenAt(i) /\ ~isCombatEnd(msg) /\ ~isCombatStart(msg)
                    /\ ~LaterThanTimeout(i)) =>
                    /\ after.currentCombat.active
                    /\ after.currentCombat.startMessageId = before.currentCombat.startMessageId
                    /\ after.combatMessages = Append(before.combatMessages, msg)

\* C28: A start signal opens an encounter only from Idle. While an encounter is
\* open, a further record matching a start signal is absorbed into the open
\* encounter: no encounter is closed, the open encounter stays the same and
\* takes the record as its last message.
C28_StartOnlyFromIdle ==
    pass.ran =>
        \A i \in 1..Len(DetectorInput) :
            LET msg == DetectorInput[i]
                before == DetectBefore(i)
                after == DetectAfter(i)
            IN  (OpenAt(i) /\ isCombatStart(msg)) =>
                    /\ after.combats = before.combats
                    /\ after.currentCombat.active
                    /\ after.currentCombat.startMessageId = before.currentCombat.startMessageId
                    /\ after.combatMessages = Append(before.combatMessages, msg)

\* C29: Every encounter returned by detect has a defined endTime, with
\* startTime <= endTime, whatever closed it.
C29_EndTimeDefined ==
    pass.ran =>
        \A c \in 1..Len(pass.combats) :
            /\ pass.combats[c].endTime # NoValue
            /\ pass.combats[c].startTime <= pass.combats[c].endTime

\* the i-th record of the input is a damage roll: a roll identifyRollType names
\* "Damage"
IsDamageRoll(msg) == isRoll(msg) /\ identifyRollType(msg) = "Damage"

\* the number of actions and the sum of the damage recorded in the rounds
RECURSIVE SumOfDamage(_)
SumOfDamage(actions) ==
    IF actions = <<>> THEN 0
    ELSE (IF actions[1].damage > 0 THEN actions[1].damage ELSE 0)
         + SumOfDamage(Tail(actions))

\* C30: No absorbed damage roll is lost. Every damage roll absorbed into an
\* encounter is recorded in the current round: as the damage of the preceding
\* attack when that attack hit and has no damage yet, and otherwise as a
\* standalone damage action carrying the roll's message id; either way the
\* damage recorded in the encounter grows by the roll's total.
C30_NoDamageRollLost ==
    pass.ran =>
        \A i \in 1..Len(DetectorInput) :
            LET msg == DetectorInput[i]
                before == DetectBefore(i)
                after == DetectAfter(i)
                rounds == after.currentCombat.rounds
                actions == rounds[Len(rounds)].actions
            IN  (OpenAt(i) /\ AbsorbsMessage(before, msg) /\ ~isCombatStart(msg)
                    /\ IsDamageRoll(msg)) =>
                    /\ actions # <<>>
                    /\ LET last == actions[Len(actions)] IN
                       \/ last.action = "attack" /\ last.damage = msg.total
                       \/ last.action = "damage" /\ last.damage = msg.total
                                                 /\ last.messageId = msg.id
                    /\ SumOfDamage(AllActions(rounds))
                          = SumOfDamage(AllActions(before.currentCombat.rounds)) + msg.total

\* the round numbers of a rounds list, in the list's order
RoundNumbers(rounds) == [k \in 1..Len(rounds) |-> rounds[k].number]

\* the round numbers of the encounter open before the i-th record, with the
\* first round the code opens when the encounter has none yet
NumbersBefore(i) ==
    LET rounds == DetectBefore(i).currentCombat.rounds
    IN  IF rounds = <<>> THEN <<1>> ELSE RoundNumbers(rounds)

\* the i-th record is absorbed into the encounter that is open when it is read
AbsorbedAt(i) ==
    /\ OpenAt(i)
    /\ ~isCombatStart(DetectorInput[i])
    /\ AbsorbsMessage(DetectBefore(i), DetectorInput[i])

\* C31: Within every encounter the round numbers are 1-based and strictly
\* increasing along the rounds list: the first round is number 1, an absorbed
\* record adds a round only when it announces a number greater than the current
\* one, and a record announcing an equal or smaller number leaves the list of
\* round numbers as it was.
C31_RoundsStrictlyIncreasing ==
    pass.ran =>
        /\ \A c \in 1..Len(pass.combats) :
              LET numbers == RoundNumbers(pass.combats[c].rounds)
              IN  /\ numbers # <<>> => numbers[1] = 1
                  /\ \A k \in 1..(Len(numbers) - 1) : numbers[k] < numbers[k + 1]
        /\ \A i \in 1..Len(DetectorInput) :
              LET numbers == NumbersBefore(i)
                  announced == RoundAnnounced[DetectorInput[i].content]
                  after == RoundNumbers(DetectAfter(i).currentCombat.rounds)
              IN  AbsorbedAt(i) =>
                      after = IF announced > numbers[Len(numbers)]
                              THEN Append(numbers, announced)
                              ELSE numbers

\* an encounter in its second round has absorbed a record that announces round 1
C31_Witness ==
    /\ pass.ran
    /\ \E i \in 1..Len(DetectorInput) :
          /\ AbsorbedAt(i)
          /\ NumbersBefore(i) = <<1, 2>>
          /\ RoundAnnounced[DetectorInput[i].content] = 1
          /\ \E c \in 1..Len(pass.combats) :
                /\ DetectorInput[i].id \in SeqToSet(pass.combats[c].originalMessageIds)
                /\ RoundNumbers(pass.combats[c].rounds) = <<1, 2>>

(***************************************************************************)
(* Properties of trim and of the archive it writes (Spec)                  *)
(***************************************************************************)
\* the entries an archive holds: in its external file, or in its "entries" flag
StoredEntries(archive, fileList) ==
    IF archive.storageType = "external" THEN fileList[archive.sessionNumber]
    ELSE archive.entries

\* the message ids covered by the entries stored in the archives
StoredIds(archiveList, fileList) ==
    UNION {SeqToSet(EntryMessageIds(StoredEntries(archiveList[a], fileList))) :
              a \in 1..Len(archiveList)}

\* what an append may change of the archives
ArchiveContents ==
    [a \in 1..Len(archives) |->
        [entries |-> StoredEntries(archives[a], files),
         originalMessageCount |-> archives[a].originalMessageCount,
         compressedEntryCount |-> archives[a].compressedEntryCount,
         statistics |-> archives[a].statistics]]

\* a call arrives while a pass is in flight
ArrivesInFlight == isTrimming /\ ncalls' = ncalls + 1

\* C2: Single-flight. At most one pass is in flight at any time; a call that
\* arrives while a pass is in flight returns null and changes neither the log,
\* the archives, the files nor the running pass; and a pass begins only at the
\* arrival of a call, never as a queued retry when the running pass ends.
C2_SingleFlight ==
    /\ [](Len(calls) <= 1)
    /\ [][/\ ArrivesInFlight =>
                /\ returned'.ret = "null"
                /\ UNCHANGED <<messages, archives, files, deleted, calls, isTrimming>>
          /\ ncalls' = ncalls => Len(calls') <= Len(calls)]_vars

\* a call has been turned away while a pass is in flight
C2_Witness == returned.threw = "rejected" /\ Len(calls) = 1 /\ isTrimming

\* C3: Idempotent re-append. When the batch of the pass that returned last is
\* processed again and its ids are already covered by the stored entries, storing
\* its result a second time leaves entries, originalMessageCount,
\* compressedEntryCount and statistics of the archives as they are.
C3_IdempotentReappend ==
    [][\A c \in 1..Len(calls) :
          (/\ calls[c].pc = "create"
           /\ returned.pc = "done"
           /\ returned.messages = calls[c].messages
           /\ {calls[c].messages[i].id : i \in 1..Len(calls[c].messages)}
                 \subseteq StoredIds(archives, files))
          => ArchiveContents' = ArchiveContents]_vars

\* C4: Delete after persist. With archiving enabled, a message is deleted only
\* when an entry covering its id is already stored in an archive (journal or
\* external file).
C4_DeleteOnlyAfterPersist ==
    [][settings.enableArchiving =>
          \A m \in deleted' \ deleted : m.id \in StoredIds(archives, files)]_vars

\* C5: Result kept on storage failure. A call whose archiveManager.create threw
\* still returns the computed result to its caller.
C5_ResultKeptOnStorageFailure ==
    returned.threw = "create" => returned.ret = "result"

\* C6: A malformed message never aborts the pass. A call whose batch holds a
\* message without content, with archiving enabled, is not ended by an
\* exception of classification.
C6_MalformedNeverAborts ==
    (/\ settings.enableArchiving
     /\ returned.pc = "done"
     /\ \E i \in 1..Len(returned.messages) : returned.messages[i].content = Undefined)
    => returned.threw # "classify"

\* C8: No data loss, for journal archives. Every message a pass deleted after
\* archiving can be viewed through an entry of an archive whose
\* originalMessageIds holds its id, combat entries included.
C8_NoDataLoss ==
    (settings.enableArchiving /\ settings.storageType = "journal") =>
        \A m \in deleted :
            \E a \in 1..Len(archives) :
                \E e \in 1..Len(archives[a].entries) :
                    /\ m.id \in SeqToSet(archives[a].entries[e].originalMessageIds)
                    /\ m \in SeqToSet(showOriginalMessages(archives[a].entries[e]))

\* a call arrives while no pass is in flight
ArrivesFree == ~isTrimming /\ ncalls' = ncalls + 1

\* the call that arrived in the step: the pass it began, or what it returned
ArrivedCall == IF Len(calls') > Len(calls) THEN calls'[Len(calls')] ELSE returned'

\* C12: Empty batch. A call that finds zero messages to process returns null
\* without an exception and begins no pass: no archive is created or appended
\* to, no file written, no message deleted.
C12_EmptyBatchNoOp ==
    [][(ArrivesFree /\ BatchOf(ArrivedCall.options) = <<>>) =>
          /\ returned'.ret = "null"
          /\ returned'.threw = ""
          /\ UNCHANGED <<calls, isTrimming, messages, archives, files, deleted>>]_vars

\* a call on an empty log has returned null
C12_Witness ==
    /\ messages = <<>>
    /\ deleted = {}
    /\ returned.pc = "done"
    /\ returned.ret = "null"
    /\ returned.threw = ""
    /\ ~isTrimming

\* the K most recent messages of the log, by timestamp
MostRecent(K) ==
    LET all == SortByTimestamp(messages)
    IN  {all[i] : i \in {j \in 1..Len(all) : j > Len(all) - K}}

\* the ids of the batches of the passes in flight
BatchIdsInFlight ==
    UNION {{calls[c].messages[i].id : i \in 1..Len(calls[c].messages)} :
              c \in 1..Len(calls)}

\* C13: Messages to keep. A call on the whole log with messagesToKeep = K > 0 and
\* without ignoreKeep takes none of the K most recent messages into its batch,
\* and begins no pass when the log holds K messages or fewer; a pass archives and
\* deletes messages of its batch only.
C13_MessagesToKeep ==
    [][/\ (ArrivesFree /\ settings.messagesToKeep > 0 /\ ~ArrivedCall.options.ignoreKeep) =>
             /\ SeqToSet(ArrivedCall.messages) \cap MostRecent(settings.messagesToKeep) = {}
             /\ Len(messages) <= settings.messagesToKeep =>
                   /\ returned'.ret = "null"
                   /\ UNCHANGED <<calls, messages, archives, files, deleted>>
       /\ \A m \in deleted' \ deleted : m.id \in BatchIdsInFlight
       /\ StoredIds(archives', files') \ StoredIds(archives, files)
             \subseteq BatchIdsInFlight]_vars

\* with K = 1 a pass archived and deleted the older message and left the most
\* recent one in the log
C13_Witness ==
    /\ settings.messagesToKeep = 1
    /\ settings.enableArchiving
    /\ returned.ret = "result"
    /\ ~returned.options.ignoreKeep
    /\ Len(returned.messages) = 1
    /\ SeqToSet(returned.messages) \subseteq deleted
    /\ Len(messages) = 1
    /\ messages[1].id \notin StoredIds(archives, files)

\* the value an archive's statistics hold for a counter of calculateStatistics;
\* critical successes are read from criticalSuccesses, or from criticalHits in
\* statistics that append wrote
Counter(stats, f) ==
    IF f = "criticalSuccesses" /\ f \notin DOMAIN stats
    THEN StatOrZero(stats, "criticalHits")
    ELSE StatOrZero(stats, f)

\* a pass is appended to an existing archive in the step
Appends(c) == calls[c].pc = "create" /\ archives # <<>> /\ archives' # archives

\* C17: Append sums statistics field by field. After a pass is appended to an
\* existing archive, each counter of the archive (combats, rolls, critical
\* successes, critical failures, item transfers, xp awards) is its previous
\* value plus the value the pass computed.
C17_AppendSumsStatistics ==
    [][\A c \in 1..Len(calls) :
          Appends(c) =>
             LET a == getArchive(archives, settings.currentSessionNumber) IN
             \A f \in {"totalCombats", "totalRolls", "criticalSuccesses",
                       "criticalFails", "itemsTransferred", "xpAwarded"} :
                Counter(archives'[a].statistics, f)
                   = Counter(archives[a].statistics, f) + calls[c].stats[f]]_vars

\* an array holds no element twice
NoDuplicate(array) ==
    \A i, j \in 1..Len(array) : i # j => array[i] # array[j]

\* C18: after an append, the keyword, actor and scene collections of the
\* archive's search index are the set unions of the archive's previous collection
\* and the pass's collection, and none of them holds a duplicate element.
C18_SearchIndexUnion ==
    [][\A c \in 1..Len(calls) :
          Appends(c) =>
             LET a == getArchive(archives, settings.currentSessionNumber)
                 before == archives[a].searchIndex
                 after == archives'[a].searchIndex
                 new == buildSearchIndex(calls[c].entries)
             IN  \A f \in {"keywords", "actors", "scenes"} :
                    /\ SeqToSet(after[f]) = SeqToSet(before[f]) \cup SeqToSet(new[f])
                    /\ NoDuplicate(after[f])]_vars

\* r is (original - compressed) / original * 100 rounded to the nearest integer,
\* halves upwards
IsRoundedRatio(r, original, compressed) ==
    /\ 2 * original * r - original <= 200 * (original - compressed)
    /\ 200 * (original - compressed) < 2 * original * r + original

\* C19: after the archive is created and after every append its totals are
\* recomputed from its content: compressedEntryCount is the number of entries
\* stored, originalMessageCount grows by the size of the batch of the pass
\* stored, and compressionRatio is the rounded ratio of the new totals.
C19_TotalsRecomputed ==
    [][\A c \in 1..Len(calls) :
          (calls[c].pc = "create" /\ archives' # archives) =>
             LET a == getArchive(archives', settings.currentSessionNumber)
                 previous == IF archives = <<>> THEN 0
                             ELSE archives[a].originalMessageCount
                 after == archives'[a]
             IN  /\ after.compressedEntryCount = Len(StoredEntries(after, files'))
                 /\ after.originalMessageCount = previous + Len(calls[c].messages)
                 /\ IsRoundedRatio(after.compressionRatio, after.originalMessageCount,
                                   after.compressedEntryCount)]_vars

\* an append changed the ratio of the archive: one message in one entry, then
\* two messages in one combat entry
C19_Witness ==
    /\ archives # <<>>
    /\ archives[1].originalMessageCount = 3
    /\ archives[1].compressedEntryCount = 2
    /\ archives[1].compressionRatio = 33

\* a pass is stored in the step
Stores(c) == calls[c].pc = "create" /\ archives' # archives

TimerPaused == auto.pauseTimerWithGame /\ auto.paused

\* C24: Time-based auto-trim. From a fresh installation (lastTrimTime at its
\* default 0), with autoTrimMethod = time, the user a GM, the periodic check
\* running and the timer never paused, an automatic pass is eventually triggered
\* once timeThreshold hours have passed.
C24_TimeTrimEventuallyTriggered ==
    (auto.autoTrimMethod = "time" /\ auto.lastTrimTime = 0 /\ auto.isGM)
        => (<>TimerPaused \/ <>(auto.autoTrims > 0))

\* a pass ends in the step: a call that was in flight returns
PassEnds == Len(calls') < Len(calls)

\* C25: The single-flight guard is always released. Whenever a pass ends, by
\* completion or by an exception, and whenever a call returns at once (empty
\* batch, exception while classifying), _isTrimming is false afterwards; the
\* guard is held exactly while a pass is in flight, so a call that arrives when
\* none is in flight is not rejected; and a rejected call leaves the guard held
\* and the running pass as it is.
C25_GuardAlwaysReleased ==
    /\ [](isTrimming <=> calls # <<>>)
    /\ [][/\ PassEnds => ~isTrimming'
          /\ (ncalls' = ncalls + 1 /\ calls = <<>>) =>
                /\ ArrivedCall.threw # "rejected"
                /\ ~InFlight(ArrivedCall) => ~isTrimming'
          /\ ArrivesInFlight =>
                /\ returned'.threw = "rejected"
                /\ isTrimming'
                /\ UNCHANGED calls]_vars

\* the first pass ended with an exception of archiveManager.create, and the call
\* that arrived after it was let in
C25_Witness ==
    /\ ncalls = 2
    /\ returned.threw = "create"
    /\ Len(calls) = 1
    /\ isTrimming

\* C32: When no combat is active, no roll message is in the combat bucket that
\* classifyMessages hands to the detector, and a pass over messages that were
\* all produced outside active combat yields no encounter and no combat entry.
C32_NoRollInCombatBucketOutsideCombat ==
    ~combatActive =>
        \A c \in 1..Len(calls) :
            LET call == calls[c] IN
            (call.messages # <<>> /\ ~ClassifyThrows(call.messages)) =>
                /\ \A i \in 1..Len(classifyMessages(call.messages, combatActive).combat) :
                      ~isRoll(classifyMessages(call.messages, combatActive).combat[i])
                /\ call.combats = <<>>
                /\ \A e \in 1..Len(call.entries) : call.entries[e].type # "combat"

\* the size of the log when trim took the batch of a call without options: the
\* batch and the messagesToKeep messages trim left out of it
LogSizeAtStart(call) == Len(call.messages) + settings.messagesToKeep

\* the step archives or deletes messages
ArchivesOrDeletes == archives' # archives \/ files' # files \/ deleted' # deleted

\* C37: With autoTrimMethod = messageCount, every automatic pass that archives
\* or deletes at least one message started at a moment when the chat log held
\* at least messagesToKeep + messageThreshold messages.
C37_AutoPassOnlyAtThreshold ==
    [][(auto.autoTrimMethod = "messageCount" /\ ArchivesOrDeletes) =>
          \E c \in 1..Len(calls) :
              /\ calls[c].pc \in {"create", "delete"}
              /\ LogSizeAtStart(calls[c])
                    >= settings.messagesToKeep + auto.messageThreshold]_vars

\* the entries an archive stores, each named by the messages it covers
CoveredBy(archive, fileList) ==
    {StoredEntries(archive, fileList)[e].originalMessageIds :
        e \in 1..Len(StoredEntries(archive, fileList))}

\* C39: An append never loses entries already stored in the archive. Every
\* entry an archive stored before a step of a pass, named by the messages it
\* covers, is still stored in it after the step, also when reading the entries
\* of an externally stored archive fails during the append.
C39_AppendKeepsStoredEntries ==
    [][\A a \in 1..Len(archives) :
          /\ a <= Len(archives')
          /\ CoveredBy(archives[a], files) \subseteq CoveredBy(archives'[a], files')]_vars

\* the archives a step creates or writes to
Written ==
    {a \in 1..Len(archives') :
        \/ a > Len(archives)
        \/ archives'[a] # archives[a]
        \/ StoredEntries(archives'[a], files') # StoredEntries(archives[a], files)}

\* C40: after the operator ends a session through the end-session dialog, the
\* next pass creates a new archive for the new session instead of appending to
\* the archive of the ended session. Every archive a pass creates or appends to
\* is an archive of the session that is current when the pass stores.
C40_PassStoresInCurrentSession ==
    [][\A a \in Written : archives'[a].sessionName = settings.currentSessionName]_vars

\* the messages of the batch of a call
BatchMessages(call) == SeqToSet(call.messages)

\* C38: with two GM clients in the session, each with its own ChatTrimmer,
\* automatic triggers never make two passes race on the same archive, so that
\* no message is archived by both clients. Passes of the two clients that are
\* in flight at the same time have no message in common.
C38_NoRaceBetweenClients ==
    \A c, d \in 1..Len(calls) :
        calls[c].client # calls[d].client =>
            BatchMessages(calls[c]) \cap BatchMessages(calls[d]) = {}

(***************************************************************************)
(* Claims on the categories of a message and on the roll analysis          *)
(***************************************************************************)
\* one of the category rules of determineMessageCategories fires for the message
AnyCategoryRule(msg, hasActiveCombat) ==
    \/ isRoll(msg)
    \/ hasActiveCombat /\ (msg.contextType \in CombatContextTypes \/ msg.initiativeRoll)
    \/ msg.whisper
    \/ msg.style \in {"ic", "emote"}
    \/ Includes(msg.content, "heal")
    \/ Includes(msg.content, "item") \/ Includes(msg.content, "gold")
    \/ Includes(msg.content, "loot")
    \/ Includes(msg.content, "xp") \/ Includes(msg.content, "level")
    \/ Includes(msg.content, "important")

\* a category list is non-empty, has no category twice, and holds "all" only
\* as its single element
WellFormedCategories(categories) ==
    /\ categories # <<>>
    /\ \A j, k \in 1..Len(categories) : categories[j] = categories[k] => j = k
    /\ "all" \in SeqToSet(categories) => categories = <<"all">>

\* C33: For every message, the category set computed by
\* determineMessageCategories is non-empty and free of duplicates, and it
\* contains the sentinel "all" exactly when no other category rule fired; the
\* entries a pass makes of the remaining messages carry that set.
C33_AllOnlyWhenNoRuleFired ==
    /\ \A i \in 1..Len(messages) :
          LET categories == determineMessageCategories(messages[i], combatActive) IN
          /\ WellFormedCategories(categories)
          /\ "all" \in SeqToSet(categories)
                <=> ~AnyCategoryRule(messages[i], combatActive)
    /\ pass.ran =>
          \A e \in 1..Len(pass.entries) :
              LET entry == pass.entries[e] IN
              (entry.type = "individual" /\ ~isCriticalMessage(entry.originalMessage[1]))
                  => /\ WellFormedCategories(entry.categories)
                     /\ "all" \in SeqToSet(entry.categories)
                           <=> ~AnyCategoryRule(entry.originalMessage[1], combatActive)

\* a pass has made the entry of a message no rule fires for, which carries
\* "all" alone, and the entry of a message with two categories
C33_Witness ==
    /\ pass.ran
    /\ \E e, f \in 1..Len(pass.entries) :
          /\ pass.entries[e].categories = <<"all">>
          /\ ~AnyCategoryRule(pass.entries[e].originalMessage[1], combatActive)
          /\ Len(pass.entries[f].categories) = 2
          /\ "all" \notin SeqToSet(pass.entries[f].categories)

\* the context types identifyRollType decides a roll's type from
RollTypeTags ==
    {"skill-check", "attack-roll", "spell-attack-roll", "damage-roll", "saving-throw"}

\* the k-th rule of the roll-type inference, in the stated order, matches the roll
RollRuleMatches(msg, k) ==
    CASE k = 1 -> msg.contextType \in RollTypeTags
      [] k = 2 -> Includes(msg.content, "initiative")
      [] k = 3 -> \E s \in 1..Len(skills) : Includes(msg.content, skills[s])
      [] k = 4 -> Includes(msg.content, "skill check") \/ Includes(msg.content, "check)")
      [] k = 5 -> Includes(msg.content, "perception") \/ Includes(msg.content, "stealth")
      [] k = 6 -> Includes(msg.content, "save") \/ Includes(msg.content, "saving throw")
      [] k = 7 -> Includes(msg.content, "damage")
      [] k = 8 -> Includes(msg.content, "attack") \/ Includes(msg.content, "strike")
      [] k = 9 -> \E a \in 1..Len(abilities) : Includes(msg.content, abilities[a])
      [] k = 10 -> TRUE

\* the roll types the k-th rule can give the roll
RollRuleTypes(msg, k) ==
    CASE k = 1 -> CASE msg.contextType = "attack-roll" -> {"Attack"}
                    [] msg.contextType = "spell-attack-roll" -> {"Spell Attack"}
                    [] msg.contextType = "damage-roll" -> {"Damage"}
                    [] msg.contextType = "saving-throw" -> {"Saving Throw"}
                    [] OTHER -> {TaggedSkillCheckNamed[t] : t \in Texts}
      [] k = 2 -> {"Initiative"}
      [] k = 3 -> {NamedRollType[skills[s]] : s \in 1..Len(skills)}
      [] k = 4 -> {SkillCheckNamed[t] : t \in Texts}
      [] k = 5 -> {"Perception", "Stealth"}
      [] k = 6 -> {"Saving Throw"}
      [] k = 7 -> {"Damage"}
      [] k = 8 -> {"Attack"}
      [] k = 9 -> {NamedRollType[abilities[a]] : a \in 1..Len(abilities)}
      [] k = 10 -> {"Roll"}

\* the first rule, in the stated order, that matches the roll
FirstRollRule(msg) ==
    CHOOSE k \in 1..10 : /\ RollRuleMatches(msg, k)
                         /\ \A j \in 1..(k - 1) : ~RollRuleMatches(msg, j)

\* the rolls of the log
RollsOfLog == {messages[i] : i \in {j \in 1..Len(messages) : isRoll(messages[j])}}

C36_NamesBeforeAttackAndDamage ==
    \A msg \in RollsOfLog :
        (msg.contextType = "" /\ (RollRuleMatches(msg, 3) \/ RollRuleMatches(msg, 9)))
            => identifyRollType(msg) \notin {"Attack", "Damage"}
=============================================================================
